---- MODULE Spec2Model ----
(***************************************************************************)
(* Model of the robust scipy fit (single_fit_scipy, fit_scipy_robust, fit, *)
(* InputData.gen_datacard) and of the Fisher test (do_fisher_test) of      *)
(* boosted_fits.py.                                                        *)
(*                                                                         *)
(* Floating-point numbers are integers in units of 1e-6.  The sha256       *)
(* digest of make_fit_hash is represented by the byte string fed to the    *)
(* hash (two keys are equal iff the hashed byte strings are equal).        *)
(* scipy.optimize.minimize, the FitCache store and the F-distribution are  *)
(* collaborators outside the repository's sources.  minimize is a          *)
(* deterministic function of its arguments that is not known: the variable *)
(* landscape fixes it for a behaviour.  The cache is a key -> result map.  *)
(***************************************************************************)
EXTENDS Integers, Sequences, FiniteSets, TLC

\* ------------------------------------------------------------------ bounds
\* number of models handed to do_fisher_test in the Fisher specification
MaxPdfs == 3

\* number of make_fit_hash calls in the hash specification
MaxHashCalls == 3

\* number of pdf_factory calls in the factory specification
MaxFactoryCalls == 2

\* number of gen_datacard calls made one after the other in one process
MaxRuns == 2

\* --------------------------------------------------------------- constants
\* tol=1e-3 of the loose fits, tol=1e-6 of the Nelder-Mead refit
TolLoose == 1000
TolTight == 1
\* options_nm = {'maxfev':10000}
MaxFev == 10000
\* do_fisher_test(..., a_crit=.07, ...), in units of 1e-3
a_crit == 70

\* ----------------------------------------------------------------- helpers
Range(s) == {s[i] : i \in DOMAIN s}

RECURSIVE Pow10(_)
Pow10(d) == IF d = 0 THEN 1 ELSE 10 * Pow10(d - 1)

\* one unit (1.0) in the fixed-point representation of floats
Micro == Pow10(6)

RECURSIVE Digits(_, _)
\* the d low decimal digits of n, zero padded
Digits(n, d) == IF d = 0 THEN "" ELSE Digits(n \div 10, d - 1) \o ToString(n % 10)

\* '{:.<d>f}'.format(v): v in units of 1e-6, rounded to d decimals; the sign
\* of a negative number is kept even when it rounds to zero.  Values whose
\* dropped digits are exactly one half are not in the input sets.
FmtFixed(v, d) ==
    LET scale == Pow10(6 - d)
        a     == IF v < 0 THEN -v ELSE v
        q     == a \div scale
        r     == a % scale
        n     == IF 2 * r >= scale THEN q + 1 ELSE q
    IN  (IF v < 0 THEN "-" ELSE "") \o ToString(n \div Pow10(d)) \o "." \o Digits(n % Pow10(d), d)

RECURSIVE Concat(_)
Concat(strs) == IF strs = <<>> THEN "" ELSE Head(strs) \o Concat(Tail(strs))

\* ------------------------------------------------------------- expressions
\* An expression string is kept as its sequence of lexical pieces; the
\* pieces "@<digits>" are the parameter references.
\* the decimal digit written by the one-character string c, -1 for any other
\* character
DigitOf(c) ==
    IF \E d \in 0..9 : ToString(d) = c THEN CHOOSE d \in 0..9 : ToString(d) = c ELSE -1
RECURSIVE DecimalOf(_)
\* int(s) of a string of decimal digits; -1 for the empty string and for a
\* string with another character
DecimalOf(s) ==
    IF Len(s) = 0 THEN -1
    ELSE LET d == DigitOf(SubSeq(s, Len(s), Len(s)))
         IN  IF d < 0 THEN -1
             ELSE IF Len(s) = 1 THEN d
             ELSE LET h == DecimalOf(SubSeq(s, 1, Len(s) - 1))
                  IN  IF h < 0 THEN -1 ELSE 10 * h + d
\* re '@(\d+)' on one piece: the index it refers to, -1 for a piece that is
\* no parameter reference
ParIndex(tok) ==
    IF Len(tok) >= 2 /\ SubSeq(tok, 1, 1) = "@" THEN DecimalOf(SubSeq(tok, 2, Len(tok)))
    ELSE -1

SetMax(S) == CHOOSE m \in S : \A k \in S : k <= m

\* count_parameters: highest @\d+ plus one
count_parameters(expr) ==
    SetMax({ParIndex(expr[i]) : i \in {k \in DOMAIN expr : ParIndex(expr[k]) >= 0}}) + 1

\* all_pdfs: family -> number of parameters -> entry of PdfInfo.info, with
\* "expr" after .format(mt_scale) for mt_scale='1000' and, where the entry
\* declares them, the ranges "pars" of the parameters; no entry declares
\* "mins" or "maxs"
all_pdfs ==
    [main |->
         (2 :> [expr |-> <<"pow(1 - ", "@0", "/1000, ", "@1", ") * pow(", "@0", "/1000, -(",
                            "@2", "))">>,
                 pars |-> (1 :> <<-30 * Micro, 30 * Micro>> @@ 2 :> <<-10 * Micro, 10 * Micro>>)]
       @@ 3 :> [expr |-> <<"pow(1 - ", "@0", "/1000, ", "@1", ") * pow(", "@0", "/1000, -(",
                            "@2", "+", "@3", "*log(", "@0", "/1000)))">>,
                 pars |-> (1 :> <<-45 * Micro, 45 * Micro>> @@
                            2 :> <<-10 * Micro, 10 * Micro>> @@ 3 :> <<-15 * Micro, 15 * Micro>>)]
       @@ 4 :> [expr |-> <<"pow(1 - ", "@0", "/1000, ", "@1", ") * pow(", "@0", "/1000, -(",
                            "@2", "+", "@3", "*log(", "@0", "/1000)+", "@4", "*pow(log(", "@0",
                            "/1000),2)))">>,
                 pars |-> (1 :> <<-95 * Micro, 95 * Micro>> @@
                            2 :> <<-25 * Micro, 20 * Micro>> @@
                            3 :> <<-2 * Micro, 2 * Micro>> @@ 4 :> <<-2 * Micro, 2 * Micro>>)]
       @@ 5 :> [expr |-> <<"pow(1 - ", "@0", "/1000, ", "@1", "+", "@2", "*log(", "@0",
                            "/1000)+", "@3", "*pow(log(", "@0", "/1000),2)) * pow(", "@0",
                            "/1000, -(", "@4", "+", "@5", "*log(", "@0", "/1000)))">>,
                 pars |-> (1 :> <<-15 * Micro, 15 * Micro>> @@
                            2 :> <<-95 * Micro, 95 * Micro>> @@
                            3 :> <<-25 * Micro, 25 * Micro>> @@
                            4 :> <<-5 * Micro, 5 * Micro>> @@ 5 :> <<-1500000, 1500000>>)]),
     alt |->
         (2 :> [expr |-> <<"exp(", "@1", "*(", "@0", "/1000)) * pow(", "@0", "/1000,", "@2",
                            ")">>,
                 pars |-> (1 :> <<-50 * Micro, 50 * Micro>> @@ 2 :> <<-10 * Micro, 10 * Micro>>)]
       @@ 3 :> [expr |-> <<"exp(", "@1", "*(", "@0", "/1000)) * pow(", "@0", "/1000,", "@2",
                            "*(1+", "@3", "*log(", "@0", "/1000)))">>]
       @@ 4 :> [expr |-> <<"exp(", "@1", "*(", "@0", "/1000)) * pow(", "@0", "/1000,", "@2",
                            "*(1+", "@3", "*log(", "@0", "/1000)*(1+", "@4", "*log(", "@0",
                            "/1000))))">>,
                 pars |-> (1 :> <<-150 * Micro, 150 * Micro>> @@
                            2 :> <<-100 * Micro, 100 * Micro>> @@
                            3 :> <<-10 * Micro, 10 * Micro>> @@ 4 :> <<-10 * Micro, 10 * Micro>>)]),
     ua2 |->
         (2 :> [expr |-> <<"pow(", "@0", "/1000, ", "@1", ") * exp(", "@0", "/1000*(", "@2",
                            "))">>]
       @@ 3 :> [expr |-> <<"pow(", "@0", "/1000, ", "@1", ") * exp(", "@0", "/1000*(", "@2",
                            "+ ", "@3", "*", "@0", "/1000))">>]
       @@ 4 :> [expr |-> <<"pow(", "@0", "/1000, ", "@1", ") * exp(", "@0", "/1000*(", "@2",
                            "+ ", "@3", "*", "@0", "/1000 + ", "@4", "*pow(", "@0", "/1000,2)))">>]
       @@ 5 :> [expr |-> <<"pow(", "@0", "/1000, ", "@1", ") * exp(", "@0", "/1000*(", "@2",
                            "+ ", "@3", "*", "@0", "/1000 + ", "@4", "*pow(", "@0",
                            "/1000,2) + ", "@5", "*pow(", "@0", "/1000,3)))">>]),
     ua2mod |->
         (1 :> [expr |-> <<"exp(", "@1", "*", "@0", "/1000)">>]
       @@ 2 :> [expr |-> <<"exp(", "@1", "*", "@0", "/1000 + ", "@2", "*pow(", "@0",
                            "/1000,2))">>]
       @@ 3 :> [expr |-> <<"exp(", "@1", "*", "@0", "/1000 + ", "@2", "*pow(", "@0",
                            "/1000,2) + ", "@3", "*pow(", "@0", "/1000,3))">>]
       @@ 4 :> [expr |-> <<"exp(", "@1", "*", "@0", "/1000 + ", "@2", "*pow(", "@0",
                            "/1000,2) + ", "@3", "*pow(", "@0", "/1000,3) + ", "@4", "*pow(",
                            "@0", "/1000,4))">>]
       @@ 5 :> [expr |-> <<"exp(", "@1", "*", "@0", "/1000 + ", "@2", "*pow(", "@0",
                            "/1000,2) + ", "@3", "*pow(", "@0", "/1000,3) + ", "@4", "*pow(",
                            "@0", "/1000,4) + ", "@5", "*pow(", "@0", "/1000,5))">>]),
     modexp |->
         (2 :> [expr |-> <<"exp(", "@1", "*pow(", "@0", "/1000, ", "@2", "))">>,
                 pars |-> (1 :> <<-20 * Micro, 0>> @@ 2 :> <<0, 10 * Micro>>)]
       @@ 3 :> [expr |-> <<"exp(", "@1", "*pow(", "@0", "/1000, ", "@2", ")+", "@1", "*pow(1-",
                            "@0", "/1000, ", "@3", "))">>,
                 pars |-> (1 :> <<-20 * Micro, 0>> @@ 2 :> <<0, 10 * Micro>> @@
                            3 :> <<-10 * Micro, 0>>)]
       @@ 4 :> [expr |-> <<"exp(", "@1", "*pow(", "@0", "/1000, ", "@2", ")+", "@4", "*pow(1-",
                            "@0", "/1000, ", "@3", "))">>,
                 pars |-> (1 :> <<-20 * Micro, 0>> @@ 2 :> <<0, 10 * Micro>> @@
                            3 :> <<-10 * Micro, 0>> @@ 4 :> <<-20 * Micro, 0>>)]),
     polpow |->
         (2 :> [expr |-> <<"pow(1 + ", "@1", "*", "@0", "/1000,-", "@2", ")">>,
                 pars |-> (1 :> <<0, 50 * Micro>> @@ 2 :> <<-50 * Micro, 0>>)]
       @@ 3 :> [expr |-> <<"pow(1 + ", "@1", "*", "@0", "/1000 + ", "@2", "*pow(", "@0",
                            "/1000,2),-", "@3", ")">>,
                 pars |-> (1 :> <<0, 50 * Micro>> @@ 2 :> <<0, 50 * Micro>> @@
                            3 :> <<-50 * Micro, 0>>)]
       @@ 4 :> [expr |-> <<"pow(1 + ", "@1", "*", "@0", "/1000 + ", "@2", "*pow(", "@0",
                            "/1000,2) + ", "@3", "*pow(", "@0", "/1000,3),-", "@4", ")">>,
                 pars |-> (1 :> <<0, 50 * Micro>> @@ 2 :> <<0, 50 * Micro>> @@
                            3 :> <<0, 50 * Micro>> @@ 4 :> <<-50 * Micro, 0>>)]
       @@ 5 :> [expr |-> <<"pow(1 + ", "@1", "*", "@0", "/1000 + ", "@2", "*pow(", "@0",
                            "/1000,2) + ", "@3", "*pow(", "@0", "/1000,3) + ", "@4", "*pow(",
                            "@0", "/1000,4),-", "@5", ")">>,
                 pars |-> (1 :> <<0, 50 * Micro>> @@ 2 :> <<0, 50 * Micro>> @@
                            3 :> <<0, 50 * Micro>> @@ 4 :> <<0, 50 * Micro>> @@
                            5 :> <<-50 * Micro, 0>>)])]

\* PdfInfo.expression(n, mt_scale) of the two lowest entries of "ua2mod"
ExprN1 == all_pdfs["ua2mod"][1].expr
ExprN2 == all_pdfs["ua2mod"][2].expr

\* -------------------------------------------------------------- histograms
\* th1_to_hist: binning, vals, errs of the histogram
Hist1 == [binning |-> <<180 * Micro, 190 * Micro, 200 * Micro>>,
          vals    |-> <<12 * Micro, 7 * Micro>>,
          errs    |-> <<3 * Micro, 2 * Micro>>]
Hists == {Hist1}

\* ------------------------------------------------------------------- hash
\* add_floats_to_hash
add_floats_to_hash(floats) == Concat([i \in DOMAIN floats |-> FmtFixed(floats[i], 5)])

\* variant: the bin errors enter the key as well
make_fit_hash_WithErrs(expression, th1, init_vals, tag, kw) ==
    Concat(expression)
    \o add_floats_to_hash(th1.binning)
    \o add_floats_to_hash(th1.vals)
    \o add_floats_to_hash(th1.errs)
    \o (IF init_vals # <<>> THEN add_floats_to_hash(init_vals[1]) ELSE "")
    \o (IF "tol" \in DOMAIN kw THEN FmtFixed(kw.tol, 3) ELSE "")
    \o (IF "method" \in DOMAIN kw THEN kw.method ELSE "")
    \o (IF tag # "" THEN tag ELSE "")
\* make_fit_hash(expression, th1, init_vals, tag, **minimize_kwargs).
\* init_vals is <<>> for None and <<vector>> otherwise; tag is "" for None;
\* kw is the record of the keyword arguments passed on to minimize.
make_fit_hash(expression, th1, init_vals, tag, kw) ==
    Concat(expression)
    \o add_floats_to_hash(th1.binning)
    \o add_floats_to_hash(th1.vals)
    \o (IF init_vals # <<>> THEN add_floats_to_hash(init_vals[1]) ELSE "")
    \o (IF "tol" \in DOMAIN kw THEN FmtFixed(kw.tol, 3) ELSE "")
    \o (IF "method" \in DOMAIN kw THEN kw.method ELSE "")
    \o (IF tag # "" THEN tag ELSE "")

\* inputs of make_fit_hash called on its own: Hist1 with other bin errors
\* and with a bin value changed in the sixth decimal
Hist1Errs  == [Hist1 EXCEPT !.errs = <<4 * Micro, 2 * Micro>>]
Hist1Noise == [Hist1 EXCEPT !.vals = <<12 * Micro + 4, 7 * Micro>>]
HashHists == {Hist1, Hist1Errs, Hist1Noise}
HashInitVals == {<<>>, << <<Micro>> >>, << <<Micro + 2>> >>}
HashKws ==
    {[maxfev |-> 0],
     [tol |-> 504, method |-> "BFGS", maxfev |-> 0],
     [tol |-> 496, method |-> "BFGS", maxfev |-> 0],
     [tol |-> TolTight, method |-> "Nelder-Mead", maxfev |-> MaxFev]}
HashTags == {"", "robust"}

\* ----------------------------------------------------------------- results
\* objective values: a finite number, NaN, +inf or -inf (a finite number is
\* Fin(v) or the negative zero of the float arithmetic below)
Fin(v) == [k |-> "fin", v |-> v]
NaN    == [k |-> "nan", v |-> 0]
PosInf == [k |-> "inf", v |-> 0]
NegInf == [k |-> "ninf", v |-> 0]
isnan(f)    == f.k = "nan"
isposinf(f) == f.k = "inf"
isneginf(f) == f.k = "ninf"
IsFinite(f) == f.k \in {"fin", "nzero"}

\* np.ones(n) and a constant vector
ConstVec(n, v) == [i \in 1..n |-> v]
Ones(n) == ConstVec(n, Micro)

\* What scipy.optimize.minimize may hand back: value of every component
\* of the solution vector, objective value and convergence flag.
MinimizeOutcomes ==
    {[xv |-> 2 * Micro, fun |-> Fin(1), success |-> TRUE],
     [xv |-> -3 * Micro, fun |-> Fin(2), success |-> FALSE],
     [xv |-> 2 * Micro, fun |-> NaN, success |-> FALSE],
     [xv |-> 2 * Micro, fun |-> PosInf, success |-> FALSE],
     [xv |-> -3 * Micro, fun |-> NegInf, success |-> FALSE]}

\* minimize(chi2, init_vals, tol=, method=, options=) is deterministic; in
\* the model its result depends on the method, on the tolerance and, for
\* BFGS, on the sign of the first starting coordinate.
MinClasses == {"BFGS+", "BFGS-", "Nelder-Mead", "Nelder-Mead-tight"}
MinClass(x_init, kw) ==
    IF kw.method = "BFGS"
    THEN (IF x_init[1] < 0 THEN "BFGS-" ELSE "BFGS+")
    ELSE (IF kw.tol < TolLoose THEN "Nelder-Mead-tight" ELSE "Nelder-Mead")
\* the objective value at which a class ends when it does not end at a
\* finite one: +inf for BFGS from a positive start, -inf for BFGS from a
\* negative start, nan for Nelder-Mead
NonFinite(c) ==
    CASE c = "BFGS+" -> PosInf
      [] c = "BFGS-" -> NegInf
      [] OTHER -> NaN
\* the behaviours of minimize that are explored: every class converges,
\* ends without convergence at a finite objective, or ends at its
\* non-finite objective
Landscapes ==
    {ls \in [MinClasses -> MinimizeOutcomes] :
        \A c \in MinClasses : IsFinite(ls[c].fun) \/ ls[c].fun = NonFinite(c)}
minimize(ls, n, x_init, kw) ==
    LET o == ls[MinClass(x_init, kw)]
    IN  [x |-> ConstVec(n, o.xv), fun |-> o.fun, success |-> o.success]

\* ------------------------------------------------------------------- cache
\* FitCache.get(key) is not None / FitCache.get(key) / FitCache.write(key, r)
CacheHas(store, key) == key \in DOMAIN store
CacheGet(store, key) == store[key]
CacheWrite(store, key, r) ==
    [k \in DOMAIN store \cup {key} |-> IF k = key THEN r ELSE store[k]]

\* variant: the lookup is skipped
CachedUnder_Skipped(c, store, key) == FALSE
\* "if cache and cache.get(fit_hash)": a cache was passed and holds the key
CachedUnder(c, store, key) == c /\ CacheHas(store, key)

\* ------------------------------------------------------- single_fit_scipy
\* c: a cache object was passed; store: the cache contents; ls: the
\* minimizer.  Yields the returned result, the new cache contents and what
\* the call did.
single_fit_scipy(expression, histogram, init_vals, c, kw, store, ls) ==
    LET fit_hash   == make_fit_hash(expression, histogram, init_vals, "", kw)
        n_fit_pars == count_parameters(expression) - 1
        x_init     == IF init_vals = <<>> THEN Ones(n_fit_pars) ELSE init_vals[1]
        o          == minimize(ls, n_fit_pars, x_init, kw)
        r          == [x |-> o.x, fun |-> o.fun, success |-> o.success,
                       x_init |-> x_init, expression |-> expression, hash |-> fit_hash]
    IN  IF CachedUnder(c, store, fit_hash)
        THEN [res |-> CacheGet(store, fit_hash), store |-> store, hash |-> fit_hash,
              looked |-> TRUE, hit |-> TRUE, minimized |-> FALSE, wrote |-> FALSE]
        ELSE [res |-> r, store |-> IF c THEN CacheWrite(store, fit_hash, r) ELSE store,
              hash |-> fit_hash, looked |-> c, hit |-> FALSE, minimized |-> TRUE,
              wrote |-> c]

\* the entry of the call log for one single_fit_scipy call
CallEntry(phase, init_vals, kw, out) ==
    [phase |-> phase, init_vals |-> init_vals, tol |-> kw.tol, method |-> kw.method,
     maxfev |-> kw.maxfev, hash |-> out.hash, looked |-> out.looked, hit |-> out.hit,
     minimized |-> out.minimized, wrote |-> out.wrote, res |-> out.res]

\* variant: the lists are zipped instead of multiplied
Product_Zipped(variations, npars) ==
    [k \in 1..Len(variations) |-> [i \in 1..npars |-> variations[k]]]
\* itertools.product(*[variations for i in range(npars)]): last position
\* varies fastest
RECURSIVE Product(_, _)
Product(variations, npars) ==
    IF npars = 0 THEN << <<>> >>
    ELSE LET prev == Product(variations, npars - 1)
             m    == Len(variations)
         IN  [k \in 1..(Len(prev) * m) |->
                 Append(prev[((k - 1) \div m) + 1], variations[((k - 1) % m) + 1])]

init_val_variations == <<-Micro, Micro>>
BruteInitVals(expression) == Product(init_val_variations, count_parameters(expression) - 1)
BruteMethods == <<"BFGS", "Nelder-Mead">>

\* variants: the brute flag is ignored; the brute flag is inverted
SimpleFitOk_IgnoresBrute(r, b) == r.success
SimpleFitOk_InvertedBrute(r, b) == r.success /\ b
\* "if res.success and not brute": the simple strategy is accepted
SimpleFitOk(r, b) == r.success /\ ~b

\* variants: -inf is not tested; only NaN is tested
KeepResult_NoNegInf(r) == ~(isnan(r.fun) \/ isposinf(r.fun))
KeepResult_NanOnly(r) == ~isnan(r.fun)
\* "if not(np.isnan(result.fun) or np.isposinf(result.fun) or
\* np.isneginf(result.fun))": the brute-force result is kept
KeepResult(r) == ~(isnan(r.fun) \/ isposinf(r.fun) \/ isneginf(r.fun))

\* variant: the first result is taken
argmin_First(rs) == 1
\* np.argmin over the objective values of a non-empty list of results with
\* finite objective: the first position holding the smallest value
argmin(rs) ==
    CHOOSE i \in DOMAIN rs :
        /\ \A j \in DOMAIN rs : rs[i].fun.v <= rs[j].fun.v
        /\ \A j \in DOMAIN rs : j < i => rs[j].fun.v > rs[i].fun.v

\* ------------------------------------------------------------- Fisher test
Pairs(n) == {p \in (0..(n - 1)) \X (0..(n - 1)) : p[1] < p[2]}
\* confidence values 1 - FDistI(f, n2-n1, n_bins-n2), in units of 1e-3
ClVals == {69, 70, 71}

\* variants: >= instead of >; the two outcomes swapped
get_winner_GreaterEqual(cl, i, j) ==
    IF i >= j THEN [raised |-> TRUE, winner |-> -1]
    ELSE IF <<i, j>> \notin DOMAIN cl THEN [raised |-> TRUE, winner |-> -1]
    ELSE IF cl[<<i, j>>] >= a_crit THEN [raised |-> FALSE, winner |-> i]
    ELSE [raised |-> FALSE, winner |-> j]
get_winner_Swapped(cl, i, j) ==
    IF i >= j THEN [raised |-> TRUE, winner |-> -1]
    ELSE IF <<i, j>> \notin DOMAIN cl THEN [raised |-> TRUE, winner |-> -1]
    ELSE IF cl[<<i, j>>] > a_crit THEN [raised |-> FALSE, winner |-> j]
    ELSE [raised |-> FALSE, winner |-> i]
\* variant: the pair is looked up in either order
get_winner_Unordered(cl, i, j) ==
    LET key == IF i < j THEN <<i, j>> ELSE <<j, i>>
    IN  IF key \notin DOMAIN cl THEN [raised |-> TRUE, winner |-> -1]
        ELSE IF cl[key] > a_crit THEN [raised |-> FALSE, winner |-> i]
        ELSE [raised |-> FALSE, winner |-> j]
\* get_winner(i, j) of do_fisher_test
get_winner(cl, i, j) ==
    IF i >= j THEN [raised |-> TRUE, winner |-> -1]
    ELSE IF <<i, j>> \notin DOMAIN cl THEN [raised |-> TRUE, winner |-> -1]
    ELSE IF cl[<<i, j>>] > a_crit THEN [raised |-> FALSE, winner |-> i]
    ELSE [raised |-> FALSE, winner |-> j]

RECURSIVE WinnerAfter(_, _)
\* winner = get_winner(0,1); for i in range(2, len(pdfs)): winner =
\* get_winner(winner, i): the outcome of the get_winner call whose second
\* index is k (the first exception ends the loop)
WinnerAfter(cl, k) ==
    IF k <= 1 THEN get_winner(cl, 0, 1)
    ELSE LET w == WinnerAfter(cl, k - 1)
         IN  IF w.raised THEN w ELSE get_winner(cl, w.winner, k)
\* the reduction of do_fisher_test over n models, from the table cl
FisherWinner(cl, n) == WinnerAfter(cl, n - 1)


\* Python float arithmetic of the F statistic, exact: a float is the quotient
\* num/den of two integers (den > 0); x / 0 raises ZeroDivisionError
Q(n) == [num |-> n, den |-> 1]
QSub(x, y) == [num |-> x.num * y.den - y.num * x.den, den |-> x.den * y.den]
QDiv(x, y) ==
    IF y.num = 0 THEN [raised |-> TRUE, q |-> Q(0)]
    ELSE [raised |-> FALSE,
          q |-> IF y.num > 0 THEN [num |-> x.num * y.den, den |-> x.den * y.num]
                ELSE [num |-> -(x.num * y.den), den |-> -(x.den * y.num)]]

\* variant: the bin count is taken from the record of model i
FStat_BinsOfFirst(pdfs, gofs, i, j) ==
    LET n1     == pdfs[i + 1].n_pars
        n2     == pdfs[j + 1].n_pars
        gof1   == gofs[i + 1].gof
        gof2   == gofs[j + 1].gof
        n_bins == gofs[i + 1].n_bins
        a      == QDiv(QSub(Q(gof1), Q(gof2)), Q(n2 - n1))
        b      == QDiv(Q(gof2), Q(n_bins - n2))
        f      == QDiv(a.q, b.q)
    IN  [raised |-> a.raised \/ b.raised \/ f.raised,
         f |-> f.q, d1 |-> n2 - n1, d2 |-> n_bins - n2]
\* f = ((gof1-gof2)/(n2-n1)) / (gof2/(n_bins-n2)) and the arguments
\* (f, n2-n1, n_bins-n2) of FDistI, for the pair (i,j) (indices from 0)
FStat(pdfs, gofs, i, j) ==
    LET n1     == pdfs[i + 1].n_pars
        n2     == pdfs[j + 1].n_pars
        gof1   == gofs[i + 1].gof
        gof2   == gofs[j + 1].gof
        n_bins == gofs[j + 1].n_bins
        a      == QDiv(QSub(Q(gof1), Q(gof2)), Q(n2 - n1))
        b      == QDiv(Q(gof2), Q(n_bins - n2))
        f      == QDiv(a.q, b.q)
    IN  [raised |-> a.raised \/ b.raised \/ f.raised,
         f |-> f.q, d1 |-> n2 - n1, d2 |-> n_bins - n2]
\* the loops over i and j that fill cl_vals: an entry for every pair i < j,
\* or the first error
FTable(pdfs, gofs) ==
    LET entries == [p \in Pairs(Len(pdfs)) |-> FStat(pdfs, gofs, p[1], p[2])]
    IN  [raised |-> \E p \in Pairs(Len(pdfs)) : entries[p].raised,
         entries |-> entries]
\* goodness-of-fit values (rss or chi2, not negative) and bin counts of the
\* records returned by get_rss_viaframe / get_chi2_viaframe
GofVals == {0, 2, 5}
GofBins == {4, 6}
\* a list of models that all have two parameters
SameCountPdfs(n) == [i \in 1..n |-> [n_pars |-> 2, expression |-> <<>>]]

\* the models of a family of n members handed to do_fisher_test directly,
\* by increasing number of parameters ("main": 2, 3, ...)
FisherPdfs(n) == [i \in 1..n |-> [n_pars |-> i + 1, expression |-> <<>>]]

\* -------------------------------------------------------------- fit_roofit
Abs(x) == IF x < 0 THEN -x ELSE x
Min2(a, b) == IF a < b THEN a ELSE b
Max2(a, b) == IF a > b THEN a ELSE b
\* None, and a value that is not None
None == <<>>
Some(v) == <<v>>

\* RooRealVar as fit_roofit uses it: a parameter is [min, max, val].
\* setMin/setMax refuse to cross the other bound and pull the value inside;
\* setRange sets both bounds and leaves the value alone.
Clip(v, lo, hi) == IF v < lo THEN lo ELSE IF v > hi THEN hi ELSE v
setMin(par, v) ==
    LET m == IF v >= par.max THEN par.max ELSE v
    IN  [min |-> m, max |-> par.max, val |-> Clip(par.val, m, par.max)]
setMax(par, v) ==
    LET m == IF v < par.min THEN par.min ELSE v
    IN  [min |-> par.min, max |-> m, val |-> Clip(par.val, par.min, m)]
setRange(par, lo, hi) ==
    LET h == IF hi < lo THEN lo ELSE hi
    IN  [min |-> lo, max |-> h, val |-> par.val]
setVal(par, v) == [min |-> par.min, max |-> par.max, val |-> Clip(v, par.min, par.max)]

\* PdfInfo.parameters(n, prefix) on the entry info = self.info[n]: the range
\* of parameter i is info["pars"][i], (-100., 100.) when none is declared,
\* and the parameters are RooRealVar(name, title, 1., lo, hi) for i = 1..n
par_ranges(info, i) ==
    IF "pars" \in DOMAIN info /\ i \in DOMAIN info.pars THEN info.pars[i]
    ELSE <<-100 * Micro, 100 * Micro>>
parameters(info, n) ==
    [i \in 1..n |-> [min |-> par_ranges(info, i)[1], max |-> par_ranges(info, i)[2],
                     val |-> Clip(Micro, par_ranges(info, i)[1], par_ranges(info, i)[2])]]

\* PdfInfo.max_range(n, i) / PdfInfo.min_range(n, i) on the entry info: the
\* declared pair of parameter i, (None, None) when the entry declares none
NoRange == <<None, None>>
max_range(info, i) ==
    IF "maxs" \in DOMAIN info /\ i \in DOMAIN info.maxs THEN info.maxs[i] ELSE NoRange
min_range(info, i) ==
    IF "mins" \in DOMAIN info /\ i \in DOMAIN info.mins THEN info.mins[i] ELSE NoRange

\* variant: the widening is taken from the value, not from its magnitude
WidenLeft_Signed(value, maxr) ==
    LET new_left == value - 10 * value
    IN  IF maxr[1] # None THEN Max2(new_left, maxr[1][1]) ELSE new_left
\* value < left: new_left = value - 10.*abs(value), not below max_range[0]
WidenLeft(value, maxr) ==
    LET new_left == value - 10 * Abs(value)
    IN  IF maxr[1] # None THEN Max2(new_left, maxr[1][1]) ELSE new_left
\* value > right: new_right = value + 10.*abs(value), not above max_range[1]
WidenRight(value, maxr) ==
    LET new_right == value + 10 * Abs(value)
    IN  IF maxr[2] # None THEN Min2(new_right, maxr[2][1]) ELSE new_right

\* abs(value) / (min(abs(left), abs(right)) + eps) < 0.1 with eps = 1e-10:
\* eps lies below the resolution of the fixed-point numbers, so the test is
\* 10*|value| <= min(|left|, |right|)
SmallSeed(value, left, right) == 10 * Abs(value) <= Min2(Abs(left), Abs(right))

\* variant: the interval is taken from the value, not from its magnitude
ShrinkBounds_Signed(value, minr) ==
    LET new_left  == -10 * value
        new_right == 10 * value
    IN  [left  |-> IF minr[1] # None THEN Min2(new_left, minr[1][1]) ELSE new_left,
         right |-> IF minr[2] # None THEN Max2(new_right, minr[2][1]) ELSE new_right]
\* new_left = -10.*abs(value), new_right = 10.*abs(value);
\* new_left = min(new_left, min_range[0]), new_right = max(new_right, min_range[1])
ShrinkBounds(value, minr) ==
    LET new_left  == -10 * Abs(value)
        new_right == 10 * Abs(value)
    IN  [left  |-> IF minr[1] # None THEN Min2(new_left, minr[1][1]) ELSE new_left,
         right |-> IF minr[2] # None THEN Max2(new_right, minr[2][1]) ELSE new_right]

\* variant: the bounds are read again after the first check
RefinePar_Reread(par, value, info, i) ==
    LET left  == par.min
        right == par.max
        p1    == IF value < left THEN setMin(par, WidenLeft(value, max_range(info, i)))
                 ELSE IF value > right THEN setMax(par, WidenRight(value, max_range(info, i)))
                 ELSE par
        sh    == ShrinkBounds(value, min_range(info, i))
        p2    == IF SmallSeed(value, p1.min, p1.max)
                 THEN setMax(setMin(p1, sh.left), sh.right)
                 ELSE p1
    IN  setVal(p2, value)

\* body of the loop over the parameters, for parameter i (ipar+1): left and
\* right are read once, at the top; first the check for a value outside the range, then the check
\* for a needlessly large range, then setVal
RefinePar(par, value, info, i) ==
    LET left  == par.min
        right == par.max
        p1    == IF value < left THEN setMin(par, WidenLeft(value, max_range(info, i)))
                 ELSE IF value > right THEN setMax(par, WidenRight(value, max_range(info, i)))
                 ELSE par
        sh    == ShrinkBounds(value, min_range(info, i))
        p2    == IF SmallSeed(value, left, right)
                 THEN setMax(setMin(p1, sh.left), sh.right)
                 ELSE p1
    IN  setVal(p2, value)

\* fit_roofit(pdf, init_vals=iv, init_ranges=ir) up to the fit, on the
\* parameters ps of the model and its catalogue entry info: the length check
\* and the loop over zip(pdf.parameters, init_vals), then the length check
\* and the loop of init_ranges.  iv and ir are None or <<list>>.  Yields the
\* exception flag and the parameters as the call leaves them.
fit_roofit(ps, info, iv, ir) ==
    IF iv # None /\ Len(iv[1]) # Len(ps) THEN [raised |-> TRUE, pars |-> ps]
    ELSE LET p1 == IF iv # None
                   THEN [i \in DOMAIN ps |-> RefinePar(ps[i], iv[1][i], info, i)]
                   ELSE ps
         IN  IF ir # None /\ Len(ir[1]) # Len(ps) THEN [raised |-> TRUE, pars |-> p1]
             ELSE [raised |-> FALSE,
                   pars |-> IF ir # None
                            THEN [i \in DOMAIN ps |-> setRange(p1[i], ir[1][i][1], ir[1][i][2])]
                            ELSE p1]

\* pdf.pdf.fitTo(...): when it does not raise, the fit leaves every
\* parameter inside its range: at the lower bound, where setVal put it, or
\* at the upper bound
FitPositions == {"min", "val", "max"}
fitTo(ps, pos) ==
    [i \in DOMAIN ps |->
        setVal(ps[i], CASE pos = "min" -> ps[i].min
                        [] pos = "max" -> ps[i].max
                        [] OTHER -> ps[i].val)]

\* set_pdf_to_fitresult(pdf, res): set_par for the pairs of
\* zip(vals, pdf.parameters), vals being res.x or the values of the final
\* parameters of the RooFitResult; the parameters beyond the shorter list
\* are left alone
set_par(par, value) == setVal(setRange(par, value - 10 * Micro, value + 10 * Micro), value)
set_pdf_to_fitresult(ps, vals) ==
    [i \in DOMAIN ps |-> IF i \in DOMAIN vals THEN set_par(ps[i], vals[i]) ELSE ps[i]]

\* inputs of fit_roofit called on its own, on the two-parameter model of
\* a family: seed values (the same for both parameters, and a list of the
\* wrong length) and ranges handed in as init_ranges
SeedVals == {-150 * Micro, -15 * Micro, -Micro, 0, Micro, 15 * Micro, 150 * Micro}
RoofitInitVals == {None} \cup {Some(<<v, v>>) : v \in SeedVals} \cup {Some(<<Micro>>)}
InitRanges == {<<-100 * Micro, -50 * Micro>>, <<50 * Micro, 100 * Micro>>}
RoofitInitRanges == {None} \cup {Some(<<r, r>>) : r \in InitRanges}
RoofitName == "x"
\* values of a fit result handed to set_pdf_to_fitresult
FitResultVals == {<<2 * Micro, -3 * Micro>>, <<2 * Micro>>}

\* ---------------------------------------------------- build_chi2, build_rss
\* numpy float arithmetic on the values Fin(v), NegZero, NaN, PosInf, NegInf;
\* in this section a finite v is in units of 1e-3 and quotients, products and
\* roots are rounded toward zero.  Fin(0) is 0.0 and NegZero is -0.0.
Milli == Pow10(3)
\* -0.0: a finite value that compares equal to 0.0 and has the sign bit set
NegZero == [k |-> "nzero", v |-> 0]
\* -1 for a value whose sign bit is set, 1 otherwise (nan is not asked)
FSign(f) == IF isneginf(f) \/ f = NegZero \/ (f.k = "fin" /\ f.v < 0) THEN -1 ELSE 1
FInf(sgn) == IF sgn < 0 THEN NegInf ELSE PosInf
\* the finite value of sign sgn and magnitude m
FSigned(sgn, m) == IF m = 0 THEN (IF sgn < 0 THEN NegZero ELSE Fin(0)) ELSE Fin(sgn * m)
\* a sum that is zero is -0.0 only when both terms are -0.0
FAdd(f, g) ==
    IF isnan(f) \/ isnan(g) THEN NaN
    ELSE IF ~IsFinite(f) /\ ~IsFinite(g) THEN (IF f = g THEN f ELSE NaN)
    ELSE IF ~IsFinite(f) THEN f
    ELSE IF ~IsFinite(g) THEN g
    ELSE IF f = NegZero /\ g = NegZero THEN NegZero
    ELSE Fin(f.v + g.v)
FNeg(f) == IF isnan(f) THEN NaN ELSE IF isposinf(f) THEN NegInf
           ELSE IF isneginf(f) THEN PosInf ELSE FSigned(-FSign(f), Abs(f.v))
FSub(f, g) == FAdd(f, FNeg(g))
\* inf * 0 is nan; the sign of a product is the product of the signs
FMul(f, g) ==
    IF isnan(f) \/ isnan(g) THEN NaN
    ELSE IF ~IsFinite(f) \/ ~IsFinite(g)
         THEN (IF (IsFinite(f) /\ f.v = 0) \/ (IsFinite(g) /\ g.v = 0) THEN NaN
               ELSE FInf(FSign(f) * FSign(g)))
    ELSE FSigned(FSign(f) * FSign(g), (Abs(f.v) * Abs(g.v)) \div Milli)
\* x / 0 is inf (0 / 0 is nan): numpy warns and does not raise; the sign of
\* a quotient is the product of the signs, also for a zero divisor
FDiv(f, g) ==
    IF isnan(f) \/ isnan(g) THEN NaN
    ELSE IF ~IsFinite(f) /\ ~IsFinite(g) THEN NaN
    ELSE IF ~IsFinite(f) THEN FInf(FSign(f) * FSign(g))
    ELSE IF ~IsFinite(g) THEN FSigned(FSign(f) * FSign(g), 0)
    ELSE IF g.v = 0 THEN (IF f.v = 0 THEN NaN ELSE FInf(FSign(f) * FSign(g)))
    ELSE FSigned(FSign(f) * FSign(g), (Abs(f.v) * Milli) \div Abs(g.v))
RECURSIVE ISqrt(_)
ISqrt(n) ==
    IF n < 2 THEN n
    ELSE LET sm == 2 * ISqrt(n \div 4)
         IN  IF (sm + 1) * (sm + 1) > n THEN sm ELSE sm + 1
\* np.sqrt of a value that is not negative (the root of -0.0 is -0.0)
FSqrt(f) == IF IsFinite(f) /\ f # NegZero THEN Fin(ISqrt(f.v * Milli)) ELSE f
RECURSIVE FSum(_)
\* ndarray.sum() / np.sum
FSum(fs) == IF fs = <<>> THEN Fin(0) ELSE FAdd(Head(fs), FSum(Tail(fs)))

\* hist.vals of th1_to_hist as floats of this section
HistVals(h) == [i \in DOMAIN h.vals |-> Fin(h.vals[i] \div Milli)]

\* the scaling with the scale factor 1 for a curve that sums to zero
Normalize_Guarded(y_pdf, vals) ==
    IF FSum(y_pdf) = Fin(0) THEN y_pdf
    ELSE [i \in DOMAIN y_pdf |-> FMul(FDiv(y_pdf[i], FSum(y_pdf)), FSum(vals))]
\* y_pdf = (y_pdf/y_pdf.sum()) * hist.vals.sum()
Normalize(y_pdf, vals) ==
    [i \in DOMAIN y_pdf |-> FMul(FDiv(y_pdf[i], FSum(y_pdf)), FSum(vals))]

\* np.sum((hist.vals-y_pdf)**2 / y_pdf)
Chi2Of(vals, y) ==
    FSum([i \in DOMAIN y |-> FDiv(FMul(FSub(vals[i], y[i]), FSub(vals[i], y[i])), y[i])])
\* np.sqrt(np.sum((hist.vals-y_pdf)**2))
RssOf(vals, y) ==
    FSqrt(FSum([i \in DOMAIN y |-> FMul(FSub(vals[i], y[i]), FSub(vals[i], y[i]))]))

\* the closures chi2(parameters) and rss(parameters); y_pdf is what
\* eval_expression gives for the parameters
chi2(h, y_pdf) == Chi2Of(HistVals(h), Normalize(y_pdf, HistVals(h)))
rss(h, y_pdf) == RssOf(HistVals(h), Normalize(y_pdf, HistVals(h)))

\* a second histogram on the binning of Hist1
Hist2 == [binning |-> <<180 * Micro, 190 * Micro, 200 * Micro>>,
          vals    |-> <<3 * Micro, 0>>,
          errs    |-> <<2 * Micro, 0>>]
ObjHists == {Hist1, Hist2}
\* values of the model curve in one bin, and the curves over two bins
\* (exp(...) that underflows gives 0.0 in every bin)
CurveVals == {-2, -1, 0, 1, 2}
Curves == {<<Fin(a * Milli), Fin(b * Milli)>> : a \in CurveVals, b \in CurveVals}

\* ----------------------------------------------------------- Histogram.cut
\* s[i:j] of a numpy array or list: a negative index counts from the end,
\* indices are clamped to the length
PyIndex(k, n) == IF k < 0 THEN Max2(n + k, 0) ELSE Min2(k, n)
PySlice(s, i, j) ==
    LET a == PyIndex(i, Len(s))
        b == PyIndex(j, Len(s))
    IN  IF a >= b THEN <<>> ELSE SubSeq(s, a + 1, b)
\* np.argmin / np.argmax of a boolean array: 0-based position of the first
\* False / the first True, 0 when there is none
np_argmin(mask) ==
    IF \A i \in DOMAIN mask : mask[i] THEN 0
    ELSE (CHOOSE i \in DOMAIN mask : ~mask[i] /\ \A j \in 1..(i - 1) : mask[j]) - 1
np_argmax(mask) ==
    IF \A i \in DOMAIN mask : ~mask[i] THEN 0
    ELSE (CHOOSE i \in DOMAIN mask : mask[i] /\ \A j \in 1..(i - 1) : ~mask[j]) - 1

\* Histogram.cut(xmin, xmax): the exception for xmin > xmax, else the copy
\* with binning[imin:imax], vals[imin:imax-1], errs[imin:imax-1]
cut(h, xmin, xmax) ==
    IF xmin > xmax THEN [raised |-> TRUE, h |-> h]
    ELSE LET nbins == Len(h.binning) - 1
             imin  == IF xmin > h.binning[1]
                      THEN np_argmin([i \in DOMAIN h.binning |-> h.binning[i] < xmin])
                      ELSE 0
             imax  == IF xmax < h.binning[Len(h.binning)]
                      THEN np_argmax([i \in DOMAIN h.binning |-> h.binning[i] > xmax])
                      ELSE nbins + 1
         IN  [raised |-> FALSE,
              h |-> [binning |-> PySlice(h.binning, imin, imax),
                     vals    |-> PySlice(h.vals, imin, imax - 1),
                     errs    |-> PySlice(h.errs, imin, imax - 1)]]

\* -np.inf and np.inf, the defaults of xmin and xmax: beyond every bin edge
NegInfX == -Pow10(9)
PosInfX == Pow10(9)
\* histograms with 3, 2 and 1 bins, and the cut points
Hist3 == [binning |-> <<180 * Micro, 190 * Micro, 200 * Micro, 210 * Micro>>,
          vals    |-> <<12 * Micro, 7 * Micro, 4 * Micro>>,
          errs    |-> <<3 * Micro, 2 * Micro, 2 * Micro>>]
Hist0 == [binning |-> <<180 * Micro, 190 * Micro>>,
          vals    |-> <<12 * Micro>>,
          errs    |-> <<3 * Micro>>]
CutHists == {Hist3, Hist1, Hist0}
CutPoints == {NegInfX, 170 * Micro, 175 * Micro, 180 * Micro, 182 * Micro, 188 * Micro,
              190 * Micro, 195 * Micro, 200 * Micro, 220 * Micro, 230 * Micro, PosInfX}

\* ------------------------------------------------------------- pdf_factory
\* known_pdfs(): the list of the families that run
known_pdfs == <<"main", "alt", "ua2">>
\* the parameter counts (keys of info) of the entries of all_pdfs
InfoKeys(pdf_type) == DOMAIN all_pdfs[pdf_type]
SetMin(S) == CHOOSE m \in S : \A k \in S : m <= k
\* PdfInfo.__init__: n_max = max(info.keys()), n_min = min(info.keys())
n_max(pdf_type) == SetMax(InfoKeys(pdf_type))
n_min(pdf_type) == SetMin(InfoKeys(pdf_type))

\* variant: the count is not checked
check_n_Unchecked(pdf_type, n) == FALSE
\* PdfInfo.check_n(n) raises: n < n_min or n > n_max (the message of the
\* exception names n_min and n_max without self, so what is raised is a
\* NameError)
check_n(pdf_type, n) == n < n_min(pdf_type) \/ n > n_max(pdf_type)

\* PdfInfo.expression(n, mt_scale) after check_n(n): the "expr" of the entry
\* (every count that passes check_n has an entry)
PdfExpression(pdf_type, n) ==
    IF n \in InfoKeys(pdf_type) THEN all_pdfs[pdf_type][n].expr ELSE <<>>

\* pdf_factory(pdf_type, n_pars, mt, bkg_th1, name): keeper is the set of
\* names held by object_keeper; the result is the exception or the keeper
\* with the parameters (names name_p1, name_p2, ...) and the two pdf objects
\* added, and the PDF
pdf_factory(pdf_type, n_pars, name, keeper) ==
    IF pdf_type \notin Range(known_pdfs)
    THEN [raised |-> TRUE, error |-> "Exception", keeper |-> keeper, pdf |-> None]
    ELSE IF check_n(pdf_type, n_pars)
    THEN [raised |-> TRUE, error |-> "NameError", keeper |-> keeper, pdf |-> None]
    ELSE LET names == [i \in 1..n_pars |-> name \o "_p" \o ToString(i)]
         IN  [raised |-> FALSE, error |-> "",
              keeper |-> keeper \cup Range(names)
                                \cup {name \o "_rgp", name \o "_rpsbp"},
              pdf |-> Some([name |-> name, pdf_type |-> pdf_type, n_pars |-> n_pars,
                            expression |-> PdfExpression(pdf_type, n_pars),
                            parameters |-> names])]

\* pdfs_factory(pdf_type, mt, bkg_th1, name=name, npars=npars): pdf_factory
\* for every count from n_min to n_max, or for npars alone (npars is None or
\* <<count>>), under the name name+'_npars'+str(n_pars); the first exception
\* ends the list comprehension
pdfs_factory(pdf_type, name, npars, keeper) ==
    LET all_n_pars == IF npars # None THEN <<npars[1]>>
                      ELSE [k \in 1..(n_max(pdf_type) - n_min(pdf_type) + 1) |->
                               n_min(pdf_type) + k - 1]
        out(k)     == pdf_factory(pdf_type, all_n_pars[k],
                                  name \o "_npars" \o ToString(all_n_pars[k]), keeper)
        built      == {k \in DOMAIN all_n_pars : \A j \in 1..k : ~out(j).raised}
        raised     == \E k \in DOMAIN all_n_pars : out(k).raised
    IN  [raised |-> raised,
         keeper |-> keeper \cup UNION {out(k).keeper : k \in built},
         pdfs   |-> IF raised THEN <<>> ELSE [k \in DOMAIN all_n_pars |-> out(k).pdf[1]]]
\* make_pdf(name, mt, bkg_th1)
make_pdf(name, keeper) == pdfs_factory(name, "bsvj_bkgfit" \o name, None, keeper)
\* gen_datacard: pdfs_dict = {pdf : make_pdf(pdf, ...) for pdf in known_pdfs()},
\* and the names the comprehension puts into object_keeper
pdfs_dict == [pdf \in Range(known_pdfs) |-> make_pdf(pdf, {}).pdfs]
pdfs_dict_names == UNION {make_pdf(pdf, {}).keeper : pdf \in Range(known_pdfs)}

\* ROOTObjectKeeper.add of an object without GetName: the key is
\* str(uuid.uuid4()), a key that no earlier object has; the k-th such key
UuidKey(k) == "uuid4-" \o ToString(k)
UuidKeys == {UuidKey(k) : k \in 1..(MaxRuns + MaxFactoryCalls + 1)}
\* uid(): a name that no earlier object has
uid(keeper) == UuidKey(Cardinality(keeper \cap UuidKeys) + 1)
\* make_multipdf(pdfs): object_keeper.add_multiple([cat, norm_objs, multipdf])
\* adds the category 'pdf_index', the list norm_objs under a new uuid key,
\* and the RooMultiPdf 'roomultipdf'
make_multipdf(keeper) ==
    keeper \cup {"pdf_index", uid(keeper), "roomultipdf"}

\* get_mt_from_th1(histogram, name): the variable is made under the name
\* given, or under uid() for None, and object_keeper.add(mt) puts it into
\* the keeper under its name
get_mt_from_th1(name, keeper) == keeper \cup {IF name = None THEN uid(keeper) ELSE name[1]}

\* inputs of pdf_factory
FactoryTypes == {"main", "alt", "ua2", "ua2mod"}
FactoryCounts == 0..6
FactoryNames == {"a", "b"}
\* inputs of get_mt_from_th1: name=None and name='mt'
MtNames == {None, Some("mt")}

\* ------------------------------------------------------------------- state
VARIABLES
    landscape,   \* the behaviour of scipy.optimize.minimize
    cache,       \* contents of the FitCache store: key -> result
    th1,         \* the background histogram of the InputData
    gpc,         \* position in gen_datacard
    use_cache,   \* gen_datacard(use_cache=...): a FitCache is passed to fit
    brute,       \* gen_datacard(brute=...), handed down to fit_scipy_robust
    ifam,        \* position in known_pdfs() of the family being fitted
    ipdf,        \* position in pdfs of the model being fitted
    fitted,      \* res_scipy of the models of the family fitted so far
    pc,          \* position in fit_scipy_robust
    expression,  \* expression argument of the current fit_scipy_robust call
    res,         \* local variable res: <<>> or <<result>>
    results,     \* local list of the brute-force results kept
    ret,         \* value returned by fit_scipy_robust: <<>> or <<result>>
    calls,       \* single_fit_scipy calls made by the current fit_scipy_robust call
    wlog,        \* cache keys written by the current fit_scipy_robust call
    fpc,         \* position in do_fisher_test
    fpdfs,       \* the models handed to do_fisher_test
    cl_vals,     \* (i,j) -> confidence value
    winner,      \* running winner
    fi,          \* loop index of the reduction
    wcalls,      \* get_winner calls made: <<i, j, returned index>>
    wprobe,      \* a get_winner call on its own: <<>> or <<i, j, outcome>>
    pars,        \* pdf.parameters of the model in fit / fit_roofit: [min, max, val] each
    pdfinfo,     \* the catalogue entry (PdfInfo.info[n]) of that model
    rf,          \* the fit_roofit call on its own that was the last call: <<>> or arguments and outcome
    obj,         \* the last objective evaluation: <<>> or function, inputs, value
    hcalls,      \* make_fit_hash calls: the first and the latest, with their keys
    hn,          \* number of make_fit_hash calls made
    hcut,        \* the last Histogram.cut call: <<>> or arguments and outcome
    object_keeper, \* names of the objects held by object_keeper
    fac,         \* the pdf_factory call that was the last call: <<>> or arguments and outcome
    nfac,        \* number of pdf_factory and get_mt_from_th1 calls made
    ftab,        \* the last table of F-test inputs computed: <<>> or inputs and entries
    conc         \* two processes fitting the same request on one Fit Cache

fitvars == <<landscape, cache, th1, gpc, use_cache, brute, ifam, ipdf, fitted, pc, expression,
             res, results, ret, calls, wlog>>
fishervars == <<fpc, fpdfs, cl_vals, winner, fi, wcalls>>
\* the model that fit / fit_roofit works on
roofitvars == <<pars, pdfinfo, rf>>
\* state of the functions that are exercised on their own
purevars == <<wprobe, obj, hcalls, hn, hcut, fac, nfac, ftab, conc>>
vars == <<landscape, cache, th1, gpc, use_cache, brute, ifam, ipdf, fitted, pc, expression,
          res, results, ret, calls, wlog,
          fpc, fpdfs, cl_vals, winner, fi, wcalls,
          wprobe, pars, pdfinfo, rf, obj, hcalls, hn, hcut, object_keeper, fac, nfac, ftab, conc>>

\* variant: the key of the request carries no tag
RobustHash_Untagged == make_fit_hash(expression, th1, <<>>, "", <<>>)
\* key of the current fit_scipy_robust request
RobustHash == make_fit_hash(expression, th1, <<>>, "robust", <<>>)

\* keyword arguments of the three kinds of single_fit_scipy calls
\* (maxfev = 0: no options given)
KwA == [tol |-> TolLoose, method |-> "BFGS", maxfev |-> 0]
\* variant: the refit runs with the loose tolerance
KwB_Loose == [tol |-> TolLoose, method |-> "Nelder-Mead", maxfev |-> MaxFev]
KwB == [tol |-> TolTight, method |-> "Nelder-Mead", maxfev |-> MaxFev]
KwBrute(method) ==
    [tol |-> TolLoose, method |-> method,
     maxfev |-> IF method = "Nelder-Mead" THEN MaxFev ELSE 0]

InitCore ==
    /\ cache = <<>>
    /\ th1 \in Hists
    /\ gpc = "idle"
    /\ use_cache = FALSE
    /\ brute = FALSE
    /\ ifam = 0
    /\ ipdf = 0
    /\ fitted = <<>>
    /\ pc = "idle"
    /\ expression = <<>>
    /\ res = <<>>
    /\ results = <<>>
    /\ ret = <<>>
    /\ calls = <<>>
    /\ wlog = <<>>
    /\ fpc = "idle"
    /\ fpdfs = <<>>
    /\ cl_vals = <<>>
    /\ winner = -1
    /\ fi = 0
    /\ wcalls = <<>>

\* nothing has been called on its own; g names the group of variables that
\* a specification initialises itself
InitPureExcept(g) ==
    /\ wprobe = <<>>
    /\ g # "roofit" => (pars = <<>> /\ pdfinfo = <<>> /\ rf = <<>>)
    /\ obj = <<>>
    /\ hcalls = <<>>
    /\ hn = 0
    /\ hcut = <<>>
    /\ g # "roofit" => object_keeper = {}
    /\ fac = <<>>
    /\ nfac = 0
    /\ ftab = <<>>
    /\ g # "conc" => conc = <<>>
InitPure == InitPureExcept("")

InitRest == InitCore /\ InitPure

Init == landscape \in Landscapes /\ InitRest

\* ------------------------------------------------------------ gen_datacard
\* for pdf_type in pdfs_dict: pdfs = pdfs_dict[pdf_type]
pdfs == pdfs_dict[known_pdfs[ifam]]
\* gen_datacard calls that ran to their end (each left one uuid key; no
\* other step of gen_datacard adds an object without a name)
RunsDone == Cardinality(object_keeper \cap UuidKeys)

\* gen_datacard(use_cache, brute) up to the first fit: pdfs_dict is built for
\* all known families (pdf_factory puts the parameters and the pdf objects
\* of every model into object_keeper), the FitCache is made, and the loop
\* over the families starts with the first one.  An exception ends the
\* process, a run that returned may be followed by another.
GenDatacard ==
    /\ gpc \in {"idle", "done"}
    /\ RunsDone < MaxRuns
    /\ use_cache' \in BOOLEAN
    /\ brute' \in BOOLEAN
    /\ object_keeper' = object_keeper \cup pdfs_dict_names
    /\ gpc' = "fits"
    /\ ifam' = 1
    /\ ipdf' = 1
    /\ fitted' = <<>>
    /\ fpc' = "idle"
    /\ fpdfs' = <<>>
    /\ cl_vals' = <<>>
    /\ winner' = -1
    /\ fi' = 0
    /\ wcalls' = <<>>
    /\ UNCHANGED <<landscape, cache, th1, pc, expression, res, results, ret, calls, wlog>>
    /\ UNCHANGED roofitvars
    /\ UNCHANGED purevars

\* fit(pdf, cache, brute) -> fit_scipy_robust(pdf.expression, th1, cache, brute):
\* the lookup under the robust key.  The parameters of the model are as
\* pdf_factory made them.
RobustStart ==
    /\ gpc = "fits"
    /\ pc = "idle"
    /\ ipdf <= Len(pdfs)
    /\ LET pdf      == pdfs[ipdf]
           e        == pdf.expression
           fit_hash == make_fit_hash(e, th1, <<>>, "robust", <<>>)
       IN  /\ expression' = e
           /\ pdfinfo' = all_pdfs[pdf.pdf_type][pdf.n_pars]
           /\ pars' = parameters(all_pdfs[pdf.pdf_type][pdf.n_pars], pdf.n_pars)
           /\ IF CachedUnder(use_cache, cache, fit_hash)
              THEN /\ res' = <<CacheGet(cache, fit_hash)>>
                   /\ ret' = <<CacheGet(cache, fit_hash)>>
                   /\ pc' = "returned"
              ELSE /\ res' = <<>>
                   /\ ret' = <<>>
                   /\ pc' = "phaseA"
    /\ results' = <<>>
    /\ calls' = <<>>
    /\ wlog' = <<>>
    /\ UNCHANGED <<landscape, cache, th1, gpc, use_cache, brute, ifam, ipdf, fitted>>
    /\ UNCHANGED fishervars
    /\ UNCHANGED <<rf, object_keeper>>
    /\ UNCHANGED purevars

\* Attempt 1, first fit: loose tolerance BFGS from the default initial values
PhaseA ==
    /\ pc = "phaseA"
    /\ LET out == single_fit_scipy(expression, th1, <<>>, use_cache, KwA, cache, landscape)
       IN  /\ res' = <<out.res>>
           /\ cache' = out.store
           /\ calls' = Append(calls, CallEntry("A", <<>>, KwA, out))
           /\ wlog' = IF out.wrote THEN Append(wlog, out.hash) ELSE wlog
    /\ pc' = "phaseB"
    /\ UNCHANGED <<landscape, th1, gpc, use_cache, brute, ifam, ipdf, fitted, expression,
                   results, ret>>
    /\ UNCHANGED fishervars
    /\ UNCHANGED <<roofitvars, object_keeper>>
    /\ UNCHANGED purevars

\* Attempt 1, refit with Nelder-Mead from the output of the first fit, and
\* the decision that follows it
PhaseB ==
    /\ pc = "phaseB"
    /\ LET init == <<res[1].x>>
           out  == single_fit_scipy(expression, th1, init, use_cache, KwB, cache, landscape)
           w1   == IF out.wrote THEN Append(wlog, out.hash) ELSE wlog
       IN  /\ res' = <<out.res>>
           /\ calls' = Append(calls, CallEntry("B", init, KwB, out))
           /\ IF SimpleFitOk(out.res, brute)
              THEN /\ cache' = IF use_cache
                               THEN CacheWrite(out.store, RobustHash, out.res)
                               ELSE out.store
                   /\ wlog' = IF use_cache THEN Append(w1, RobustHash) ELSE w1
                   /\ ret' = <<out.res>>
                   /\ pc' = "returned"
              ELSE /\ cache' = out.store
                   /\ wlog' = w1
                   /\ ret' = <<>>
                   /\ pc' = "brute"
    /\ results' = <<>>
    /\ UNCHANGED <<landscape, th1, gpc, use_cache, brute, ifam, ipdf, fitted, expression>>
    /\ UNCHANGED fishervars
    /\ UNCHANGED <<roofitvars, object_keeper>>
    /\ UNCHANGED purevars

\* the passes of the body of the brute-force loops (for method in ['BFGS',
\* 'Nelder-Mead']: for init_val_variation in init_vals), in the order in
\* which they run: single_fit_scipy is called without the cache argument, so
\* every pass finds the store as the loops found it (st) and hands it on
BrutePasses(e, h, st, ls) ==
    LET init_vals == BruteInitVals(e)
        m         == Len(init_vals)
    IN  [k \in 1..(Len(BruteMethods) * m) |->
            LET kw   == KwBrute(BruteMethods[((k - 1) \div m) + 1])
                init == <<init_vals[((k - 1) % m) + 1]>>
                out  == single_fit_scipy(e, h, init, FALSE, kw, st, ls)
            IN  [out |-> out, entry |-> CallEntry("brute", init, kw, out)]]

\* the brute-force loops, all passes: a result is kept unless its objective
\* is nan, +inf or -inf
BruteLoops ==
    /\ pc = "brute"
    /\ \E passes \in {BrutePasses(expression, th1, cache, landscape)} :
          /\ results' = SelectSeq([k \in DOMAIN passes |-> passes[k].out.res], KeepResult)
          /\ cache' = passes[Len(passes)].out.store
          /\ calls' = calls \o [k \in DOMAIN passes |-> passes[k].entry]
          /\ \E wrote \in {SelectSeq(passes, LAMBDA q : q.out.wrote)} :
                wlog' = wlog \o [k \in DOMAIN wrote |-> wrote[k].out.hash]
    /\ pc' = "select"
    /\ UNCHANGED <<landscape, th1, gpc, use_cache, brute, ifam, ipdf, fitted, expression,
                   res, ret>>
    /\ UNCHANGED fishervars
    /\ UNCHANGED <<roofitvars, object_keeper>>
    /\ UNCHANGED purevars

\* after the loops: raise if nothing was kept, else take the smallest
\* objective, write it under the robust key and return it
BruteSelect ==
    /\ pc = "select"
    /\ IF Len(results) = 0
       THEN /\ pc' = "raised"
            /\ UNCHANGED <<cache, res, ret, wlog>>
       ELSE LET i_min == argmin(results)
            IN  /\ res' = <<results[i_min]>>
                /\ cache' = IF use_cache
                            THEN CacheWrite(cache, RobustHash, results[i_min])
                            ELSE cache
                /\ wlog' = IF use_cache THEN Append(wlog, RobustHash) ELSE wlog
                /\ ret' = <<results[i_min]>>
                /\ pc' = "returned"
    /\ UNCHANGED <<landscape, th1, gpc, use_cache, brute, ifam, ipdf, fitted, expression,
                   results, calls>>
    /\ UNCHANGED fishervars
    /\ UNCHANGED <<roofitvars, object_keeper>>
    /\ UNCHANGED purevars

\* the locals of fit_scipy_robust end with the call
LocalsGone ==
    /\ expression' = <<>>
    /\ res' = <<>>
    /\ results' = <<>>
    /\ ret' = <<>>
    /\ calls' = <<>>
    /\ wlog' = <<>>

\* fit(): fit_scipy_robust returned res_scipy; fit_roofit(pdf, th1,
\* init_vals=res_scipy.x) adjusts the ranges of the parameters, seeds them
\* and runs the RooFit fit.  When the fit raises, the exception is logged
\* and raised again and leaves gen_datacard; else the list comprehension of
\* gen_datacard moves on to the next model.
FitReturn ==
    /\ pc = "returned"
    /\ LET out == fit_roofit(pars, pdfinfo, Some(ret[1].x), None)
       IN  \/ /\ ~out.raised
              /\ \E pos \in FitPositions : pars' = fitTo(out.pars, pos)
              /\ fitted' = Append(fitted, ret[1])
              /\ ipdf' = ipdf + 1
              /\ UNCHANGED gpc
           \/ /\ pars' = out.pars
              /\ gpc' = "raised"
              /\ UNCHANGED <<fitted, ipdf>>
    /\ pc' = "idle"
    /\ LocalsGone
    /\ UNCHANGED <<landscape, cache, th1, use_cache, brute, ifam>>
    /\ UNCHANGED fishervars
    /\ UNCHANGED <<pdfinfo, rf, object_keeper>>
    /\ UNCHANGED purevars

\* the exception of fit_scipy_robust leaves fit and gen_datacard
FitRaise ==
    /\ pc = "raised"
    /\ gpc' = "raised"
    /\ pc' = "idle"
    /\ LocalsGone
    /\ UNCHANGED <<landscape, cache, th1, use_cache, brute, ifam, ipdf, fitted>>
    /\ UNCHANGED fishervars
    /\ UNCHANGED <<roofitvars, object_keeper>>
    /\ UNCHANGED purevars

\* ---------------------------------------------------------- do_fisher_test
\* do_fisher_test(mt, data, pdfs) from the goodness-of-fit records gofs of
\* the models and the table cl of the confidence values 1 - FDistI(...): the
\* loops that fill cl_vals raise on a zero divisor, else the result is the
\* reduction over the table
do_fisher_test(ps, gofs, cl) ==
    IF FTable(ps, gofs).raised THEN [raised |-> TRUE, winner |-> -1]
    ELSE FisherWinner(cl, Len(ps))
\* goodness-of-fit records of n models: any values, any bin counts
Gofs(n) == [1..n -> [gof : GofVals, n_bins : GofBins]]
\* goodness-of-fit records of n models fitted to the same data histogram:
\* get_rss_viaframe counts the same bins for each of them
DatacardGofs(n) ==
    {[i \in 1..n |-> [gof |-> v[i], n_bins |-> b]] : v \in [1..n -> GofVals], b \in GofBins}
\* what do_fisher_test may do for the models ps: raise in the table loops,
\* or continue to the reduction with some table
FisherOutcomes(ps, gofs_set) ==
    {do_fisher_test(ps, g, <<>>) : g \in {g \in gofs_set : FTable(ps, g).raised}}
    \cup (IF \E g \in gofs_set : ~FTable(ps, g).raised
          THEN {FisherWinner(cl, Len(ps)) : cl \in [Pairs(Len(ps)) -> ClVals]}
          ELSE {})
\* the outcomes for the three families of gen_datacard
DatacardFisherOutcomes ==
    [t \in Range(known_pdfs) |-> FisherOutcomes(pdfs_dict[t], DatacardGofs(Len(pdfs_dict[t])))]
\* for 1..MaxPdfs models handed to do_fisher_test directly: some records
\* make the table loops raise / let them finish
TableRaises == [n \in 1..MaxPdfs |-> \E g \in Gofs(n) : FTable(FisherPdfs(n), g).raised]
TableFills == [n \in 1..MaxPdfs |-> \E g \in Gofs(n) : ~FTable(FisherPdfs(n), g).raised]

\* gen_datacard, after the fits of a family: i_winner = do_fisher_test(mt,
\* data, pdfs), the whole call (the table is a local of the call and gone
\* when it returns)
FisherFromDatacard ==
    /\ gpc = "fits"
    /\ pc = "idle"
    /\ ipdf > Len(pdfs)
    /\ \E o \in DatacardFisherOutcomes[known_pdfs[ifam]] :
          /\ fpc' = IF o.raised THEN "raised" ELSE "done"
          /\ winner' = o.winner
    /\ gpc' = "fisher"
    /\ fpdfs' = <<>>
    /\ cl_vals' = <<>>
    /\ fi' = 0
    /\ wcalls' = <<>>
    /\ UNCHANGED <<landscape, cache, th1, use_cache, brute, ifam, ipdf, fitted, pc, expression,
                   res, results, ret, calls, wlog>>
    /\ UNCHANGED <<roofitvars, object_keeper>>
    /\ UNCHANGED purevars

\* do_fisher_test called with a list of n fitted models, up to the first
\* get_winner call: the loops that fill cl_vals raise (a zero divisor), or
\* leave a confidence value for every pair
FisherStart ==
    /\ gpc = "idle"
    /\ fpc \in {"idle", "done", "raised"}
    /\ \E n \in 1..MaxPdfs :
         /\ fpdfs' = FisherPdfs(n)
         /\ \/ /\ TableRaises[n]
               /\ cl_vals' = <<>>
               /\ fpc' = "raised"
            \/ /\ TableFills[n]
               /\ cl_vals' \in [Pairs(n) -> ClVals]
               /\ fpc' = "first"
    /\ winner' = -1
    /\ fi' = 0
    /\ wcalls' = <<>>
    /\ UNCHANGED fitvars
    /\ UNCHANGED <<roofitvars, object_keeper>>
    /\ UNCHANGED purevars

\* winner = get_winner(0,1)
FisherFirst ==
    /\ fpc = "first"
    /\ LET w == get_winner(cl_vals, 0, 1)
       IN  IF w.raised
           THEN /\ fpc' = "raised"
                /\ UNCHANGED <<winner, fi, wcalls>>
           ELSE /\ winner' = w.winner
                /\ fi' = 2
                /\ fpc' = "loop"
                /\ wcalls' = Append(wcalls, <<0, 1, w.winner>>)
    /\ UNCHANGED <<fpdfs, cl_vals>>
    /\ UNCHANGED fitvars
    /\ UNCHANGED <<roofitvars, object_keeper>>
    /\ UNCHANGED purevars

\* variant: each model is compared with its predecessor, not with the
\* running winner
FisherLoop_Consecutive ==
    /\ fpc = "loop"
    /\ IF fi < Len(fpdfs)
       THEN LET w == get_winner(cl_vals, fi - 1, fi)
            IN  IF w.raised
                THEN /\ fpc' = "raised"
                     /\ UNCHANGED <<winner, fi, wcalls>>
                ELSE /\ winner' = w.winner
                     /\ fi' = fi + 1
                     /\ wcalls' = Append(wcalls, <<fi - 1, fi, w.winner>>)
                     /\ UNCHANGED fpc
       ELSE /\ fpc' = "done"
            /\ UNCHANGED <<winner, fi, wcalls>>
    /\ UNCHANGED <<fpdfs, cl_vals>>
    /\ UNCHANGED fitvars
    /\ UNCHANGED <<roofitvars, object_keeper>>
    /\ UNCHANGED purevars

\* for i in range(2, len(pdfs)): winner = get_winner(winner, i); return winner
FisherLoop ==
    /\ fpc = "loop"
    /\ IF fi < Len(fpdfs)
       THEN LET w == get_winner(cl_vals, winner, fi)
            IN  IF w.raised
                THEN /\ fpc' = "raised"
                     /\ UNCHANGED <<winner, fi, wcalls>>
                ELSE /\ winner' = w.winner
                     /\ fi' = fi + 1
                     /\ wcalls' = Append(wcalls, <<winner, fi, w.winner>>)
                     /\ UNCHANGED fpc
       ELSE /\ fpc' = "done"
            /\ UNCHANGED <<winner, fi, wcalls>>
    /\ UNCHANGED <<fpdfs, cl_vals>>
    /\ UNCHANGED fitvars
    /\ UNCHANGED <<roofitvars, object_keeper>>
    /\ UNCHANGED purevars

\* gen_datacard: the winner of the family is taken and the loop over
\* pdfs_dict goes on with the next family
NextFamily ==
    /\ gpc = "fisher"
    /\ fpc = "done"
    /\ ifam < Len(known_pdfs)
    /\ ifam' = ifam + 1
    /\ ipdf' = 1
    /\ fitted' = <<>>
    /\ gpc' = "fits"
    /\ fpc' = "idle"
    /\ winner' = -1
    /\ UNCHANGED <<landscape, cache, th1, use_cache, brute, pc, expression,
                   res, results, ret, calls, wlog>>
    /\ UNCHANGED <<fpdfs, cl_vals, fi, wcalls>>
    /\ UNCHANGED <<roofitvars, object_keeper>>
    /\ UNCHANGED purevars

\* gen_datacard ends: the exception of do_fisher_test leaves it, or, after
\* the last family, compile_datacard_macro -> make_multipdf(winner_pdfs) puts
\* its three objects into object_keeper and the call returns; its arguments
\* and locals end with it
DatacardDone ==
    /\ gpc = "fisher"
    /\ \/ /\ fpc = "raised"
          /\ gpc' = "raised"
          /\ UNCHANGED <<use_cache, brute, ifam, ipdf, fitted, fpc, winner, pars, pdfinfo,
                         object_keeper>>
       \/ /\ fpc = "done"
          /\ ifam = Len(known_pdfs)
          /\ gpc' = "done"
          /\ object_keeper' = make_multipdf(object_keeper)
          /\ use_cache' = FALSE
          /\ brute' = FALSE
          /\ ifam' = 0
          /\ ipdf' = 0
          /\ fitted' = <<>>
          /\ fpc' = "idle"
          /\ winner' = -1
          /\ pars' = <<>>
          /\ pdfinfo' = <<>>
    /\ UNCHANGED <<landscape, cache, th1, pc, expression, res, results, ret, calls, wlog>>
    /\ UNCHANGED <<fpdfs, cl_vals, fi, wcalls, rf>>
    /\ UNCHANGED purevars

Next ==
    \/ GenDatacard
    \/ RobustStart
    \/ PhaseA
    \/ PhaseB
    \/ BruteLoops
    \/ BruteSelect
    \/ FitReturn
    \/ FitRaise
    \/ FisherFromDatacard
    \/ NextFamily
    \/ DatacardDone

Spec == Init /\ [][Next]_vars

\* the Fisher test on its own, on lists of 1..MaxPdfs fitted models
DefaultLandscape == CHOOSE ls \in Landscapes : \A c \in MinClasses : ls[c].success
InitFisher == landscape = DefaultLandscape /\ InitRest
NextFisher ==
    \/ FisherStart
    \/ FisherFirst
    \/ FisherLoop
SpecFisher == InitFisher /\ [][NextFisher]_vars

\* ------------------------------------------------- get_winner on its own
\* get_winner(i, j) called inside do_fisher_test, once cl_vals is filled,
\* with any two indices (up to one past the longest list)
GetWinnerCall ==
    /\ gpc = "idle"
    /\ fpc # "idle"
    /\ \E i, j \in 0..MaxPdfs : wprobe' = <<i, j, get_winner(cl_vals, i, j)>>
    /\ UNCHANGED <<pars, pdfinfo, rf, obj, hcalls, hn, hcut, object_keeper, fac, nfac, ftab, conc>>
    /\ UNCHANGED fitvars
    /\ UNCHANGED fishervars

NextWinner ==
    \/ FisherStart
    \/ FisherFirst
    \/ FisherLoop
    \/ GetWinnerCall
SpecWinner == InitFisher /\ [][NextWinner]_vars

\* ------------------------------------- the table of F tests on its own
\* the first part of do_fisher_test, up to the first get_winner call: the
\* goodness-of-fit records of the models and the entry of every pair (one
\* call)
FisherTableCall ==
    /\ ftab = <<>>
    /\ \E n \in 1..MaxPdfs :
         \E ps \in {FisherPdfs(n), SameCountPdfs(n)},
            gofs \in [1..n -> [gof : GofVals, n_bins : GofBins]] :
              LET t == FTable(ps, gofs)
              IN  ftab' = [pdfs |-> ps, gofs |-> gofs, raised |-> t.raised,
                           entries |-> t.entries]
    /\ UNCHANGED <<wprobe, pars, pdfinfo, rf, obj, hcalls, hn, hcut, object_keeper, fac, nfac, conc>>
    /\ UNCHANGED fitvars
    /\ UNCHANGED fishervars

InitFTable == landscape = DefaultLandscape /\ InitCore /\ InitPure
NextFTable == FisherTableCall
SpecFTable == InitFTable /\ [][NextFTable]_vars

\* ---------------------------------- two processes sharing one Fit Cache
\* Each process runs single_fit_scipy(expression, th1, cache=cache, **kw) on
\* the shared cache. The calls cache.get and cache.write are atomic (each is
\* one step); between them the process holds no lock.
Procs == {1, 2}
ConcRequests ==
    {[expression |-> pdf.expression, kw |-> k] :
        pdf \in {pdfs_dict["alt"][1], pdfs_dict["ua2"][1]}, k \in {KwA, KwB}}
ConcHash(r) == make_fit_hash(r.expression, th1, <<>>, "", r.kw)
ConcSet(f, p, v) == [f EXCEPT ![p] = v]

\* a process calls single_fit_scipy
ConcCall(p) ==
    /\ conc.pc[p] \in {"idle", "done"}
    /\ \E r \in ConcRequests :
          conc' = [conc EXCEPT !.pc = ConcSet(conc.pc, p, "lookup"),
                               !.req = ConcSet(conc.req, p, r),
                               !.ret = ConcSet(conc.ret, p, <<>>),
                               !.hit = ConcSet(conc.hit, p, FALSE),
                               !.minimized = ConcSet(conc.minimized, p, FALSE)]
\* if cache and cache.get(fit_hash): the first lookup of the key
ConcLookup(p) ==
    /\ conc.pc[p] = "lookup"
    /\ LET fit_hash == ConcHash(conc.req[p])
       IN  IF CachedUnder(TRUE, conc.store, fit_hash)
           THEN conc' = [conc EXCEPT !.pc = ConcSet(conc.pc, p, "between"),
                                     !.hit = ConcSet(conc.hit, p, TRUE)]
           ELSE conc' = [conc EXCEPT !.pc = ConcSet(conc.pc, p, "fit")]
\* return cache.get(fit_hash): the second lookup of the key, on the store as
\* it is by then
ConcReturnCached(p) ==
    /\ conc.pc[p] = "between"
    /\ conc' = [conc EXCEPT !.pc = ConcSet(conc.pc, p, "done"),
                            !.ret = ConcSet(conc.ret, p,
                                            <<CacheGet(conc.store, ConcHash(conc.req[p]))>>)]
\* res = minimize(chi2, init_vals, **minimize_args), with the extra fields
ConcMinimize(p) ==
    /\ conc.pc[p] = "fit"
    /\ LET r          == conc.req[p]
           n_fit_pars == count_parameters(r.expression) - 1
           x_init     == Ones(n_fit_pars)
           o          == minimize(landscape, n_fit_pars, x_init, r.kw)
           result     == [x |-> o.x, fun |-> o.fun, success |-> o.success,
                          x_init |-> x_init, expression |-> r.expression,
                          hash |-> ConcHash(r)]
       IN  conc' = [conc EXCEPT !.pc = ConcSet(conc.pc, p, "write"),
                                !.minimized = ConcSet(conc.minimized, p, TRUE),
                                !.ret = ConcSet(conc.ret, p, <<result>>)]
\* if cache: cache.write(fit_hash, res); return res
ConcWrite(p) ==
    /\ conc.pc[p] = "write"
    /\ conc' = [conc EXCEPT !.pc = ConcSet(conc.pc, p, "done"),
                            !.store = CacheWrite(conc.store, ConcHash(conc.req[p]),
                                                 conc.ret[p][1]),
                            !.writes = conc.writes \cup {<<p, ConcHash(conc.req[p])>>}]

ConcStep ==
    /\ \E p \in Procs :
          \/ ConcCall(p)
          \/ ConcLookup(p)
          \/ ConcReturnCached(p)
          \/ ConcMinimize(p)
          \/ ConcWrite(p)
    /\ UNCHANGED <<wprobe, pars, pdfinfo, rf, obj, hcalls, hn, hcut, object_keeper, fac, nfac, ftab>>
    /\ UNCHANGED fitvars
    /\ UNCHANGED fishervars

InitConc ==
    /\ landscape = DefaultLandscape
    /\ InitCore
    /\ InitPureExcept("conc")
    /\ conc = [pc |-> [p \in Procs |-> "idle"], req |-> [p \in Procs |-> <<>>],
               ret |-> [p \in Procs |-> <<>>], hit |-> [p \in Procs |-> FALSE],
               minimized |-> [p \in Procs |-> FALSE], store |-> <<>>, writes |-> {}]
NextConc == ConcStep
SpecConc == InitConc /\ [][NextConc]_vars

\* -------------------------------------------------------------- fit_roofit
\* fit_roofit(pdf, init_vals=iv, init_ranges=ir) on the model with two
\* parameters: the length checks, the loop over the parameters, the ranges
\* handed in, and the fit, which raises or leaves the parameters somewhere
\* in their ranges; left and right are the bounds at entry
FitRoofit ==
    /\ \E iv \in RoofitInitVals, ir \in RoofitInitRanges :
          \E out \in {fit_roofit(pars, pdfinfo, iv, ir)} :
              \/ /\ rf' = [left |-> [i \in DOMAIN pars |-> pars[i].min],
                            right |-> [i \in DOMAIN pars |-> pars[i].max],
                            init_vals |-> iv, init_ranges |-> ir, raised |-> out.raised]
                 /\ IF out.raised
                    THEN pars' = out.pars
                    ELSE \E pos \in FitPositions : pars' = fitTo(out.pars, pos)
              \/ /\ ~out.raised
                 /\ rf' = [left |-> [i \in DOMAIN pars |-> pars[i].min],
                            right |-> [i \in DOMAIN pars |-> pars[i].max],
                            init_vals |-> iv, init_ranges |-> ir, raised |-> TRUE]
                 /\ pars' = out.pars
    /\ UNCHANGED <<wprobe, pdfinfo, obj, hcalls, hn, hcut, object_keeper, fac, nfac, ftab, conc>>
    /\ UNCHANGED fitvars
    /\ UNCHANGED fishervars

\* set_pdf_to_fitresult(pdf, res) on the same model, res an OptimizeResult
\* with x = vals or a RooFitResult whose final parameters are vals; rf
\* describes the fit_roofit call that left the parameters as they are, so it
\* is cleared
SetPdfToFitresult ==
    /\ \E vals \in FitResultVals : pars' = set_pdf_to_fitresult(pars, vals)
    /\ rf' = <<>>
    /\ UNCHANGED <<wprobe, pdfinfo, obj, hcalls, hn, hcut, object_keeper, fac, nfac, ftab, conc>>
    /\ UNCHANGED fitvars
    /\ UNCHANGED fishervars

\* the families whose two-parameter model fit_roofit is called on, and
\* their catalogue entries (none declares "mins" or "maxs")
RoofitTypes == Range(known_pdfs)
PdfInfos == {all_pdfs[t][2] : t \in RoofitTypes}
\* the model fit_roofit is called on is the one pdf_factory made for the
\* entry under the name RoofitName: its parameters are as
\* PdfInfo.parameters made them and object_keeper holds them and the two
\* pdf objects
InitRoofit ==
    /\ landscape = DefaultLandscape
    /\ InitCore
    /\ InitPureExcept("roofit")
    /\ \E t \in RoofitTypes :
          /\ pdfinfo = all_pdfs[t][2]
          /\ pars = parameters(pdfinfo, 2)
          /\ object_keeper = pdf_factory(t, 2, RoofitName, {}).keeper
    /\ rf = <<>>
NextRoofit ==
    \/ FitRoofit
    \/ SetPdfToFitresult
SpecRoofit == InitRoofit /\ [][NextRoofit]_vars

\* ---------------------------------------------------- build_chi2, build_rss
\* build_chi2(expr, h) and a call of the chi2 it returns, for parameters at
\* which eval_expression gives the curve y_pdf
Chi2Call ==
    /\ \E h \in ObjHists, y_pdf \in Curves :
          obj' = [fn |-> "chi2", hist |-> h, y_pdf |-> y_pdf, value |-> chi2(h, y_pdf)]
    /\ UNCHANGED <<wprobe, pars, pdfinfo, rf, hcalls, hn, hcut, object_keeper, fac, nfac, ftab, conc>>
    /\ UNCHANGED fitvars
    /\ UNCHANGED fishervars

\* build_rss(expr, th1) and a call of the rss it returns
RssCall ==
    /\ \E h \in ObjHists, y_pdf \in Curves :
          obj' = [fn |-> "rss", hist |-> h, y_pdf |-> y_pdf, value |-> rss(h, y_pdf)]
    /\ UNCHANGED <<wprobe, pars, pdfinfo, rf, hcalls, hn, hcut, object_keeper, fac, nfac, ftab, conc>>
    /\ UNCHANGED fitvars
    /\ UNCHANGED fishervars

InitObjective == landscape = DefaultLandscape /\ InitCore /\ InitPure
NextObjective ==
    \/ Chi2Call
    \/ RssCall
SpecObjective == InitObjective /\ [][NextObjective]_vars

\* ----------------------------------------------------------- make_fit_hash
\* one call make_fit_hash(expression, th1, init_vals=, tag=, **minimize_kwargs)
MakeFitHashCall ==
    /\ hn < MaxHashCalls
    /\ \E h \in HashHists, iv \in HashInitVals, kw \in HashKws, tag \in HashTags :
          LET c == [expression |-> ExprN1, th1 |-> h, init_vals |-> iv, tag |-> tag,
                    kw |-> kw, key |-> make_fit_hash(ExprN1, h, iv, tag, kw)]
          IN  hcalls' = IF hcalls = <<>> THEN <<c>> ELSE <<hcalls[1], c>>
    /\ hn' = hn + 1
    /\ UNCHANGED <<wprobe, pars, pdfinfo, rf, obj, hcut, object_keeper, fac, nfac, ftab, conc>>
    /\ UNCHANGED fitvars
    /\ UNCHANGED fishervars

\* requests that differ in one part each: expression, histogram, initial
\* values (None, the all-ones start, the result of a first fit), settings
\* (the tight refit, a refit at tol=1e-4, the loose gradient method), tag
InjHistA == [binning |-> <<Micro, 2 * Micro, 3 * Micro>>, vals |-> <<4 * Micro, 5 * Micro>>,
             errs |-> <<2 * Micro, 2 * Micro>>]
InjHistB == [binning |-> <<Micro, 2 * Micro>>, vals |-> <<3 * Micro>>, errs |-> <<2 * Micro>>]
InjHists == {InjHistA, InjHistB}
InjInitVals == {<<>>, << <<6 * Micro>> >>, << <<4 * Micro, 5 * Micro, 6 * Micro>> >>}
InjKws ==
    {[tol |-> TolTight, method |-> "Nelder-Mead", maxfev |-> MaxFev],
     [tol |-> 100, method |-> "Nelder-Mead", maxfev |-> MaxFev],
     [tol |-> TolLoose, method |-> "BFGS", maxfev |-> 0]}
\* one call make_fit_hash(expression, th1, init_vals=, tag=, **minimize_kwargs)
\* on these requests
MakeFitHashRequest ==
    /\ hn < MaxHashCalls
    /\ \E e \in {ExprN1, ExprN2}, h \in InjHists, iv \in InjInitVals, kw \in InjKws,
          tag \in HashTags :
          LET c == [expression |-> e, th1 |-> h, init_vals |-> iv, tag |-> tag,
                    kw |-> kw, key |-> make_fit_hash(e, h, iv, tag, kw)]
          IN  hcalls' = IF hcalls = <<>> THEN <<c>> ELSE <<hcalls[1], c>>
    /\ hn' = hn + 1
    /\ UNCHANGED <<wprobe, pars, pdfinfo, rf, obj, hcut, object_keeper, fac, nfac, ftab, conc>>
    /\ UNCHANGED fitvars
    /\ UNCHANGED fishervars

InitHash == landscape = DefaultLandscape /\ InitCore /\ InitPure
NextHash == MakeFitHashCall
SpecHash == InitHash /\ [][NextHash]_vars
NextHashRequests == MakeFitHashRequest
SpecHashRequests == InitHash /\ [][NextHashRequests]_vars

\* ----------------------------------------------------------- Histogram.cut
\* h.cut(xmin, xmax) on a histogram with len(vals) == len(errs) ==
\* len(binning)-1
CutCall ==
    /\ \E h \in CutHists, xmin \in CutPoints, xmax \in CutPoints :
          hcut' = [self |-> h, xmin |-> xmin, xmax |-> xmax,
                   raised |-> cut(h, xmin, xmax).raised, out |-> cut(h, xmin, xmax).h]
    /\ UNCHANGED <<wprobe, pars, pdfinfo, rf, obj, hcalls, hn, object_keeper, fac, nfac, ftab, conc>>
    /\ UNCHANGED fitvars
    /\ UNCHANGED fishervars

InitCut == landscape = DefaultLandscape /\ InitCore /\ InitPure
NextCut == CutCall
SpecCut == InitCut /\ [][NextCut]_vars

\* ------------------------------------------------------------- pdf_factory
\* one call pdf_factory(pdf_type, n_pars, mt, bkg_th1, name=name)
PdfFactoryCall ==
    /\ nfac < MaxFactoryCalls
    /\ \E pdf_type \in FactoryTypes, n_pars \in FactoryCounts, name \in FactoryNames :
          LET out == pdf_factory(pdf_type, n_pars, name, object_keeper)
          IN  /\ fac' = [pdf_type |-> pdf_type, n_pars |-> n_pars, name |-> name,
                         before |-> object_keeper, raised |-> out.raised,
                         error |-> out.error, pdf |-> out.pdf]
              /\ object_keeper' = out.keeper
    /\ nfac' = nfac + 1
    /\ UNCHANGED <<wprobe, pars, pdfinfo, rf, obj, hcalls, hn, hcut, ftab, conc>>
    /\ UNCHANGED fitvars
    /\ UNCHANGED fishervars

\* one call get_mt_from_th1(histogram, name=name); fac describes the
\* pdf_factory call that left the keeper as it is, so it is cleared
GetMtFromTh1 ==
    /\ nfac < MaxFactoryCalls
    /\ \E name \in MtNames : object_keeper' = get_mt_from_th1(name, object_keeper)
    /\ fac' = <<>>
    /\ nfac' = nfac + 1
    /\ UNCHANGED <<wprobe, pars, pdfinfo, rf, obj, hcalls, hn, hcut, ftab, conc>>
    /\ UNCHANGED fitvars
    /\ UNCHANGED fishervars

InitFactory == landscape = DefaultLandscape /\ InitCore /\ InitPure
NextFactory ==
    \/ PdfFactoryCall
    \/ GetMtFromTh1
SpecFactory == InitFactory /\ [][NextFactory]_vars

\* =================================================================== claims
\* the brute-force calls of the current fit_scipy_robust call, in call order
BruteCalls == SelectSeq(calls, LAMBDA c : c.phase = "brute")
\* number of fit parameters of the current request
NFitPars == count_parameters(expression) - 1
RECURSIVE Pow2(_)
Pow2(n) == IF n = 0 THEN 1 ELSE 2 * Pow2(n - 1)
\* the call is past its brute-force loops
BruteLoopsOver == pc \in {"select", "returned", "raised"} /\ BruteCalls # <<>>
\* robust key of the request that RobustStart is about to serve
NextRobustHash == make_fit_hash(pdfs[ipdf].expression, th1, <<>>, "robust", <<>>)

\* C1: with a cache in use, every minimization call of the robust optimizer
\* (Phase A, Phase B and each brute-force run) looks up the cache under its
\* own key and, on a miss, writes its result back under that key.
C1_EveryCallGoesThroughCache ==
    (pc # "idle" /\ use_cache) =>
        \A k \in DOMAIN calls :
            /\ calls[k].looked
            /\ (calls[k].hit \/ (calls[k].wrote /\ CacheHas(cache, calls[k].hash)))

\* C2: a request whose robust key is in the cache is answered with exactly
\* that entry, without any minimization call and without any cache write.
C2_WarmCacheReturnsEntry ==
    [][(RobustStart /\ use_cache /\ CacheHas(cache, NextRobustHash)) =>
          /\ pc' = "returned"
          /\ ret' = <<CacheGet(cache, NextRobustHash)>>
          /\ calls' = <<>>
          /\ wlog' = <<>>
          /\ cache' = cache]_vars
C2_Witness ==
    /\ pc = "returned"
    /\ use_cache
    /\ calls = <<>>
    /\ ret = <<CacheGet(cache, RobustHash)>>

\* C3 as stated: whatever the cache holds, a call with brute=True runs the
\* brute-force fallback and returns its minimum-objective run.
C3_BruteAlwaysRunsFallback ==
    (pc = "returned" /\ brute) =>
        /\ BruteCalls # <<>>
        /\ \E k \in DOMAIN BruteCalls : ret[1] = BruteCalls[k].res

\* C3 amended: a call with brute=True that misses the cache under the robust
\* key (or has no cache) runs all brute-force fits, also when Phase B
\* converged, and then returns the minimum-objective finite run or raises; a
\* call that returns without brute-force fits after minimizing has brute
\* not forced.
C3_BruteRunsFallbackOnMiss ==
    /\ (pc \in {"returned", "raised"} /\ brute /\ calls # <<>>) =>
          /\ Len(BruteCalls) = 2 * Pow2(NFitPars)
          /\ pc = "returned" =>
                /\ \E k \in DOMAIN BruteCalls : ret[1] = BruteCalls[k].res
                /\ \A k \in DOMAIN BruteCalls :
                      IsFinite(BruteCalls[k].res.fun) => ret[1].fun.v <= BruteCalls[k].res.fun.v
    /\ (pc = "returned" /\ calls # <<>> /\ BruteCalls = <<>>) =>
          /\ ~brute
          /\ ret[1] = calls[2].res
C3_Witness ==
    /\ pc = "returned"
    /\ brute
    /\ Len(calls) > 2
    /\ calls[2].res.success
    /\ ret[1].fun.v > calls[2].res.fun.v

\* C4: when Phase B converged and brute force is not forced, the call
\* returns Phase B's result without any brute-force fit and, with a cache,
\* the robust key then holds a result equal to the returned one.
C4_SimpleStrategyReturnsPhaseB ==
    (pc \in {"returned", "brute", "select", "raised"} /\ Len(calls) >= 2
       /\ calls[2].res.success /\ ~brute) =>
        /\ pc = "returned"
        /\ Len(calls) = 2
        /\ ret = <<calls[2].res>>
        /\ use_cache => (CacheHas(cache, RobustHash) /\ CacheGet(cache, RobustHash) = ret[1])
C4_Witness ==
    /\ pc = "returned"
    /\ ~brute
    /\ use_cache
    /\ Len(calls) = 2
    /\ calls[2].res.success
    /\ calls[2].minimized
    /\ CacheGet(cache, RobustHash) = ret[1]

\* C5: in the brute-force fallback of an expression with N fit parameters
\* each of the two methods is run once from each of exactly 2^N pairwise
\* distinct initial vectors with components -1 or +1.
C5_BruteForceCompleteness ==
    BruteLoopsOver =>
        /\ Len(BruteCalls) = 2 * Pow2(NFitPars)
        /\ \A m \in Range(BruteMethods) :
              LET cs == SelectSeq(BruteCalls, LAMBDA c : c.method = m)
              IN  /\ Len(cs) = Pow2(NFitPars)
                  /\ \A i, j \in DOMAIN cs : i # j => cs[i].init_vals # cs[j].init_vals
                  /\ \A i \in DOMAIN cs :
                        /\ cs[i].minimized
                        /\ Len(cs[i].init_vals[1]) = NFitPars
                        /\ \A k \in 1..NFitPars : cs[i].init_vals[1][k] \in {-Micro, Micro}
C5_Witness ==
    /\ pc = "select"
    /\ NFitPars = 2
    /\ Len(BruteCalls) = 8

\* C6: the result of the brute-force fallback is a run with a finite
\* objective that is not larger than the objective of any other run with a
\* finite objective; NaN, +inf and -inf runs are never returned.
C6_BruteMinimumIsFiniteMinimum ==
    (pc = "returned" /\ BruteCalls # <<>>) =>
        /\ IsFinite(ret[1].fun)
        /\ \E k \in DOMAIN BruteCalls : ret[1] = BruteCalls[k].res
        /\ \A k \in DOMAIN BruteCalls :
              IsFinite(BruteCalls[k].res.fun) => ret[1].fun.v <= BruteCalls[k].res.fun.v
C6_Witness ==
    /\ pc = "returned"
    /\ \E i, j, k \in DOMAIN BruteCalls :
          /\ i < j
          /\ IsFinite(BruteCalls[i].res.fun)
          /\ IsFinite(BruteCalls[j].res.fun)
          /\ BruteCalls[j].res.fun.v < BruteCalls[i].res.fun.v
          /\ ~IsFinite(BruteCalls[k].res.fun)
          /\ ret[1] = BruteCalls[j].res

\* C7: if no brute-force run has a finite objective the call raises,
\* returns nothing and writes nothing under the robust key.
C7_NoFiniteRunRaises ==
    (BruteLoopsOver /\ pc # "select"
       /\ \A k \in DOMAIN BruteCalls : ~IsFinite(BruteCalls[k].res.fun)) =>
        /\ pc = "raised"
        /\ ret = <<>>
        /\ \A k \in DOMAIN wlog : wlog[k] # RobustHash
        /\ use_cache => ~CacheHas(cache, RobustHash)
C7_Witness ==
    /\ pc = "raised"
    /\ use_cache
    /\ \E i, j, k \in DOMAIN BruteCalls :
          /\ isnan(BruteCalls[i].res.fun)
          /\ isposinf(BruteCalls[j].res.fun)
          /\ isneginf(BruteCalls[k].res.fun)

\* C8 as stated: every model handed to the Fisher test has a robust result
\* whose convergence flag is true.
C8_FisherModelsConverged ==
    gpc = "fisher" => \A i \in DOMAIN fitted : fitted[i].success

\* C8 amended: every model of the family reaches the Fisher test with a
\* robust result that has the convergence flag set or a finite objective
\* (the brute-force minimum, possibly of a run that did not converge); when
\* no brute-force run of a model is finite the exception leaves
\* gen_datacard and the family's Fisher test is not run.
C8_FisherModelsConvergedOrFinite ==
    /\ gpc = "fisher" =>
          /\ Len(fitted) = Len(pdfs)
          /\ \A i \in DOMAIN fitted : fitted[i].success \/ IsFinite(fitted[i].fun)
    /\ (gpc = "raised" /\ Len(fitted) < Len(pdfs)) => fpc = "idle"
C8_Witness ==
    /\ gpc = "fisher"
    /\ \E i \in DOMAIN fitted : ~fitted[i].success /\ IsFinite(fitted[i].fun)

\* C9: for i<j get_winner returns i when the confidence of the pair is
\* strictly above the threshold and j otherwise, equality included.
C9_PairwiseDecision ==
    /\ \A p \in DOMAIN cl_vals :
          LET w == get_winner(cl_vals, p[1], p[2])
          IN  /\ ~w.raised
              /\ w.winner \in {p[1], p[2]}
              /\ (cl_vals[p] > a_crit) => w.winner = p[1]
              /\ (cl_vals[p] <= a_crit) => w.winner = p[2]
    /\ \A k \in DOMAIN wcalls :
          LET i == wcalls[k][1]
              j == wcalls[k][2]
          IN  wcalls[k][3] = IF cl_vals[<<i, j>>] > a_crit THEN i ELSE j
C9_Witness ==
    /\ fpc = "done"
    /\ \E k, l \in DOMAIN wcalls :
          /\ cl_vals[<<wcalls[k][1], wcalls[k][2]>>] = a_crit
          /\ wcalls[k][3] = wcalls[k][2]
          /\ cl_vals[<<wcalls[l][1], wcalls[l][2]>>] > a_crit
          /\ wcalls[l][3] = wcalls[l][1]

\* the lowest index whose successor does not improve on it significantly
NotImprovedByNext(w) == w = Len(fpdfs) - 1 \/ cl_vals[<<w, w + 1>>] > a_crit
LowestNotImprovedByNext ==
    CHOOSE w \in 0..(Len(fpdfs) - 1) :
        NotImprovedByNext(w) /\ \A u \in 0..(w - 1) : ~NotImprovedByNext(u)

\* C10 as stated: the selected model is the lowest index w with
\* confidence(w, w+1) above the threshold (the last model if there is none).
C10_SelectsLowestNotImproved ==
    fpc = "done" => winner = LowestNotImprovedByNext

\* C10 amended: the selected model w is not significantly improved upon by
\* the next model (w is the last model or confidence(w, w+1) is above the
\* threshold) and, if w > 0, it significantly improved upon some less
\* complex model i < w (confidence(i, w) at or below the threshold); it need
\* not be the lowest index with the first property.
C10_SelectedNotImprovedByNext ==
    fpc = "done" =>
        /\ winner \in 0..(Len(fpdfs) - 1)
        /\ NotImprovedByNext(winner)
        /\ winner > 0 => \E i \in 0..(winner - 1) : cl_vals[<<i, winner>>] <= a_crit
C10_Witness ==
    /\ fpc = "done"
    /\ Len(fpdfs) >= 3
    /\ winner > 0
    /\ winner # LowestNotImprovedByNext

\* C11: get_winner(i, j) called with i >= j fails with an error and returns
\* no winner, for every i and j.
C11_OrderingViolationRaises ==
    /\ \A i, j \in 0..MaxPdfs :
          i >= j => (get_winner(cl_vals, i, j).raised /\ get_winner(cl_vals, i, j).winner = -1)
    /\ (wprobe # <<>> /\ wprobe[1] >= wprobe[2]) =>
          (wprobe[3].raised /\ wprobe[3].winner = -1)
C11_Witness ==
    /\ wprobe # <<>>
    /\ wprobe[1] > wprobe[2]
    /\ <<wprobe[2], wprobe[1]>> \in DOMAIN cl_vals
    /\ wprobe[3].raised

\* the last fit_roofit call adjusted the bounds from seed values and did not
\* overwrite them with ranges handed in
RfApplies == rf # <<>> /\ ~rf.raised /\ rf.init_vals # None /\ rf.init_ranges = None
\* seed of parameter i
RfSeed(i) == rf.init_vals[1][i]
\* the widened bounds of the claim, clipped to the declared maximum range
RfWideRight(i) ==
    LET t == RfSeed(i) + 10 * Abs(RfSeed(i))
        m == max_range(pdfinfo, i)[2]
    IN  IF m # None /\ m[1] < t THEN m[1] ELSE t
RfWideLeft(i) ==
    LET t == RfSeed(i) - 10 * Abs(RfSeed(i))
        m == max_range(pdfinfo, i)[1]
    IN  IF m # None /\ m[1] > t THEN m[1] ELSE t
\* the smallness test of the code, on the bounds at entry
RfSmall(i) == SmallSeed(RfSeed(i), rf.left[i], rf.right[i])
\* ratio |seed| / min(|lower|, |upper|) below 0.1
RfRatioSmall(i) == 10 * Abs(RfSeed(i)) < Min2(Abs(rf.left[i]), Abs(rf.right[i]))
\* the symmetric interval enlarged to contain the declared minimum range
RfHullLeft(i) ==
    LET m == min_range(pdfinfo, i)[1]
    IN  IF m # None /\ m[1] < -10 * Abs(RfSeed(i)) THEN m[1] ELSE -10 * Abs(RfSeed(i))
RfHullRight(i) ==
    LET m == min_range(pdfinfo, i)[2]
    IN  IF m # None /\ m[1] > 10 * Abs(RfSeed(i)) THEN m[1] ELSE 10 * Abs(RfSeed(i))
\* the symmetric interval intersected with the declared minimum range
RfCutLeft(i) ==
    LET m == min_range(pdfinfo, i)[1]
    IN  IF m # None /\ m[1] > -10 * Abs(RfSeed(i)) THEN m[1] ELSE -10 * Abs(RfSeed(i))
RfCutRight(i) ==
    LET m == min_range(pdfinfo, i)[2]
    IN  IF m # None /\ m[1] < 10 * Abs(RfSeed(i)) THEN m[1] ELSE 10 * Abs(RfSeed(i))

\* C12 as stated: a seed above the upper bound moves the upper bound to
\* value + 10*|value| (clipped to the declared maximum) and leaves the lower
\* bound alone; symmetrically for a seed below the lower bound.
C12_OutOfBoundWidensOneSide ==
    RfApplies =>
        \A i \in DOMAIN pars :
            /\ RfSeed(i) > rf.right[i] =>
                  (pars[i].max = RfWideRight(i) /\ pars[i].min = rf.left[i])
            /\ RfSeed(i) < rf.left[i] =>
                  (pars[i].min = RfWideLeft(i) /\ pars[i].max = rf.right[i])

\* C12 amended: the above holds when the smallness test on the bounds at
\* entry does not hold as well; when it does (both bounds on the same side
\* of zero, seed beyond them and near zero) both bounds are replaced by the
\* bounds of the shrinking step.
C12_OutOfBoundWidensUnlessSmall ==
    RfApplies =>
        \A i \in DOMAIN pars :
            /\ (RfSeed(i) > rf.right[i] /\ ~RfSmall(i)) =>
                  (pars[i].max = RfWideRight(i) /\ pars[i].min = rf.left[i])
            /\ (RfSeed(i) < rf.left[i] /\ ~RfSmall(i)) =>
                  (pars[i].min = RfWideLeft(i) /\ pars[i].max = rf.right[i])
            /\ ((RfSeed(i) > rf.right[i] \/ RfSeed(i) < rf.left[i]) /\ RfSmall(i)) =>
                  (pars[i].min = RfHullLeft(i) /\ pars[i].max = RfHullRight(i))
C12_Witness ==
    /\ RfApplies
    /\ \E i \in DOMAIN pars :
          /\ RfSeed(i) = 15 * Micro
          /\ rf.left[i] = -10 * Micro
          /\ rf.right[i] = 10 * Micro
          /\ max_range(pdfinfo, i) = NoRange
          /\ pars[i].min = -10 * Micro
          /\ pars[i].max = 165 * Micro

\* C13: for a seed with |seed| / min(|lower|, |upper|) < 0.1 the new bounds
\* are [-10*|seed|, 10*|seed|] intersected with the declared minimum range
\* when one is declared, and exactly [-10*|seed|, 10*|seed|] when none is
\* declared (no entry of the catalogue declares one).
C13_SmallSeedShrinksToIntersection ==
    RfApplies =>
        \A i \in DOMAIN pars :
            RfRatioSmall(i) =>
                /\ pars[i].min = RfCutLeft(i)
                /\ pars[i].max = RfCutRight(i)
                /\ min_range(pdfinfo, i) = NoRange =>
                      (pars[i].min = -10 * Abs(RfSeed(i)) /\ pars[i].max = 10 * Abs(RfSeed(i)))
C13_Witness ==
    /\ RfApplies
    /\ \E i \in DOMAIN pars :
          /\ RfRatioSmall(i)
          /\ RfSeed(i) = -Micro
          /\ rf.left[i] = -100 * Micro
          /\ rf.right[i] = 100 * Micro
          /\ min_range(pdfinfo, i) = NoRange
          /\ pars[i].min = -10 * Micro
          /\ pars[i].max = 10 * Micro

\* C14: for parameters at which the evaluated model sums to zero the
\* objectives of build_chi2 and build_rss skip the rescaling (scale factor 1):
\* the value is the one computed from the unscaled curve, and the residual
\* sum of squares is a finite number.
C14_ZeroSumSkipsScaling ==
    (obj # <<>> /\ FSum(obj.y_pdf) = Fin(0)) =>
        LET vals == HistVals(obj.hist)
            y    == Normalize_Guarded(obj.y_pdf, vals)
        IN  /\ y = obj.y_pdf
            /\ obj.fn = "chi2" => obj.value = Chi2Of(vals, y)
            /\ obj.fn = "rss" => (obj.value = RssOf(vals, y) /\ IsFinite(obj.value))

\* v rounded to d decimals, as a number (in units of 10^-d)
RoundTo(v, d) ==
    LET scale == Pow10(6 - d)
        a     == Abs(v)
        n     == IF 2 * (a % scale) >= scale THEN (a \div scale) + 1 ELSE a \div scale
    IN  IF v < 0 THEN -n ELSE n
SameRounded(xs, ys, d) ==
    Len(xs) = Len(ys) /\ \A i \in DOMAIN xs : RoundTo(xs[i], d) = RoundTo(ys[i], d)
\* the two calls agree on everything that is not a float
SameStrings(a, b) ==
    /\ a.expression = b.expression
    /\ a.tag = b.tag
    /\ ("method" \in DOMAIN a.kw) = ("method" \in DOMAIN b.kw)
    /\ "method" \in DOMAIN a.kw => a.kw.method = b.kw.method
    /\ (a.init_vals = <<>>) = (b.init_vals = <<>>)
    /\ ("tol" \in DOMAIN a.kw) = ("tol" \in DOMAIN b.kw)
\* all floats of the two calls agree after rounding to d decimals
SameFloats(a, b, d) ==
    /\ SameRounded(a.th1.binning, b.th1.binning, d)
    /\ SameRounded(a.th1.vals, b.th1.vals, d)
    /\ a.init_vals # <<>> => SameRounded(a.init_vals[1], b.init_vals[1], d)
    /\ "tol" \in DOMAIN a.kw => RoundTo(a.kw.tol, d) = RoundTo(b.kw.tol, d)

\* C15: every float that enters the key (bin edges, bin values, initial
\* values, tolerance) is serialized with 5 decimals, so two requests whose
\* floats are equal after rounding to 5 decimals get the same key.
C15_FiveDecimalsCollapse ==
    \A i, j \in DOMAIN hcalls :
        (SameStrings(hcalls[i], hcalls[j]) /\ SameFloats(hcalls[i], hcalls[j], 5)) =>
            hcalls[i].key = hcalls[j].key

\* C16: two make_fit_hash calls with identical expression, binning, bin
\* values, initial values, tolerance, method and tag return the same key,
\* whatever the bin errors are and whatever was hashed in between.
C16_HashDeterministic ==
    \A i, j \in DOMAIN hcalls :
        (/\ hcalls[i].expression = hcalls[j].expression
         /\ hcalls[i].th1.binning = hcalls[j].th1.binning
         /\ hcalls[i].th1.vals = hcalls[j].th1.vals
         /\ hcalls[i].init_vals = hcalls[j].init_vals
         /\ hcalls[i].kw = hcalls[j].kw
         /\ hcalls[i].tag = hcalls[j].tag) =>
            hcalls[i].key = hcalls[j].key
C16_Witness ==
    /\ hn = 3
    /\ hcalls[1].th1 = Hist1
    /\ hcalls[2].th1 = Hist1Errs
    /\ hcalls[1].init_vals = hcalls[2].init_vals
    /\ hcalls[1].init_vals # <<>>
    /\ hcalls[1].kw = hcalls[2].kw
    /\ "tol" \in DOMAIN hcalls[1].kw
    /\ hcalls[1].tag = hcalls[2].tag
    /\ hcalls[1].key = hcalls[2].key

\* C17: for every histogram with len(vals) == len(errs) == len(binning)-1
\* and every xmin <= xmax, ranges outside the binning or inside one bin
\* included, the histogram returned by cut has len(vals) == len(errs) ==
\* len(binning)-1.
C17_CutKeepsShape ==
    (hcut # <<>> /\ hcut.xmin <= hcut.xmax) =>
        /\ ~hcut.raised
        /\ Len(hcut.out.vals) = Len(hcut.out.errs)
        /\ Len(hcut.out.vals) = Len(hcut.out.binning) - 1

\* C18: a model instance requested with a parameter count outside the
\* family's declared [n_min, n_max] fails with an error before any parameter
\* or model object is created; no instance with another count is made.
C18_OutOfRangeCountFails ==
    (fac # <<>> /\ fac.pdf_type \in Range(known_pdfs)
       /\ (fac.n_pars < n_min(fac.pdf_type) \/ fac.n_pars > n_max(fac.pdf_type))) =>
        /\ fac.raised
        /\ fac.pdf = None
        /\ object_keeper = fac.before
C18_Witness ==
    /\ fac # <<>>
    /\ fac.pdf_type = "alt"
    /\ fac.n_pars = 5
    /\ fac.raised
    /\ fac.before # {}
    /\ object_keeper = fac.before

\* C19: the cache is append-only: no step removes or changes an entry, and
\* every write goes to a key that holds no entry (a key is written only
\* after it was missed in the same call).
C19_CacheAppendOnly ==
    [][/\ \A k \in DOMAIN cache : k \in DOMAIN cache' /\ cache'[k] = cache[k]
       /\ Len(wlog') > Len(wlog) =>
             \A i \in (Len(wlog) + 1)..Len(wlog') :
                 /\ wlog'[i] \notin DOMAIN cache
                 /\ wlog'[i] \in DOMAIN cache'
                 /\ \A j \in (Len(wlog) + 1)..Len(wlog') : j # i => wlog'[j] # wlog'[i]
       /\ DOMAIN cache' \ DOMAIN cache \subseteq Range(wlog')]_vars
C19_Witness ==
    /\ pc = "returned"
    /\ Len(wlog) >= 3
    /\ \E k \in DOMAIN cache : k \notin Range(wlog)
    /\ \A k \in Range(wlog) : k \in DOMAIN cache

\* C20: in a call that misses the cache Phase A (BFGS, tol 1e-3, from the
\* all-ones vector) is the first fit, Phase B (Nelder-Mead, tol 1e-6, at
\* most 10000 evaluations, from Phase A's solution) is the second, and
\* brute-force fits come only after Phase B.
C20_PhaseOrder ==
    /\ pc = "phaseA" => calls = <<>>
    /\ pc = "phaseB" => Len(calls) = 1
    /\ pc \in {"brute", "select", "raised"} => Len(calls) >= 2
    /\ (pc = "returned" /\ calls # <<>>) => Len(calls) >= 2
    /\ Len(calls) >= 1 =>
          /\ calls[1].phase = "A"
          /\ calls[1].method = "BFGS"
          /\ calls[1].tol = TolLoose
          /\ calls[1].init_vals = <<>>
          /\ calls[1].res.x_init = Ones(NFitPars)
    /\ Len(calls) >= 2 =>
          /\ calls[2].phase = "B"
          /\ calls[2].method = "Nelder-Mead"
          /\ calls[2].tol = TolTight
          /\ calls[2].maxfev = MaxFev
          /\ calls[2].init_vals = <<calls[1].res.x>>
    /\ \A k \in DOMAIN calls : k > 2 => calls[k].phase = "brute"
C20_Witness ==
    /\ pc = "select"
    /\ Len(calls) > 2
    /\ calls[1].minimized
    /\ calls[2].minimized
    /\ calls[2].init_vals[1] # Ones(NFitPars)
    /\ calls[3].phase = "brute"

\* the pairwise decision and the left fold over models 0..k, written from
\* the confidence table alone
PairWinner(i, j) == IF cl_vals[<<i, j>>] > a_crit THEN i ELSE j
RECURSIVE FoldWinner(_)
FoldWinner(k) == IF k = 1 THEN PairWinner(0, 1) ELSE PairWinner(FoldWinner(k - 1), k)

\* C21: for n >= 2 models the result of do_fisher_test is the left fold
\* w_1 = winner(0,1), w_k = winner(w_{k-1}, k), result w_{n-1}; the k-th
\* winner call is (w_{k-1}, k), its first index is strictly smaller than its
\* second, and no winner call of the reduction fails (a call that raises
\* does so in the loops that fill the table, before the reduction).
C21_SequentialReduction ==
    Len(fpdfs) >= 2 =>
        /\ fpc = "raised" => (cl_vals = <<>> /\ wcalls = <<>>)
        /\ \A k \in DOMAIN wcalls :
              /\ wcalls[k][1] < wcalls[k][2]
              /\ wcalls[k][2] = k
              /\ wcalls[k][1] = (IF k = 1 THEN 0 ELSE FoldWinner(k - 1))
              /\ wcalls[k][3] = FoldWinner(k)
        /\ fpc = "done" =>
              /\ Len(wcalls) = Len(fpdfs) - 1
              /\ winner = FoldWinner(Len(fpdfs) - 1)
C21_Witness ==
    /\ fpc = "done"
    /\ Len(fpdfs) = 3
    /\ wcalls[1][3] = 0
    /\ wcalls[2] = <<0, 2, 2>>
    /\ cl_vals[<<1, 2>>] > a_crit

\* the seed of parameter i lay outside the bounds at entry
RfOutside(i) == RfSeed(i) < rf.left[i] \/ RfSeed(i) > rf.right[i]
\* the bounds as the out-of-bound correction alone leaves them
RfAfterWidenLeft(i) == IF RfSeed(i) < rf.left[i] THEN RfWideLeft(i) ELSE rf.left[i]
RfAfterWidenRight(i) == IF RfSeed(i) > rf.right[i] THEN RfWideRight(i) ELSE rf.right[i]
\* the smallness test, had it been evaluated on the widened bounds
RfSmallAfterWiden(i) == SmallSeed(RfSeed(i), RfAfterWidenLeft(i), RfAfterWidenRight(i))

\* C22: the out-of-bound correction comes first and the smallness correction
\* second; the smallness test is evaluated on the bounds as they were before
\* the widening, and when a seed triggers both corrections the final bounds
\* are those of the smallness correction. When the test fails on the bounds
\* at entry the widened bounds stay, even if the test would hold on them.
C22_OutOfBoundThenSmallness ==
    RfApplies =>
        \A i \in DOMAIN pars :
            RfOutside(i) =>
                /\ RfSmall(i) => (pars[i].min = RfHullLeft(i) /\ pars[i].max = RfHullRight(i))
                /\ ~RfSmall(i) =>
                      (pars[i].min = RfAfterWidenLeft(i) /\ pars[i].max = RfAfterWidenRight(i))
C22_Witness ==
    /\ RfApplies
    /\ \E i \in DOMAIN pars :
          /\ RfSeed(i) = Micro
          /\ rf.left[i] = 50 * Micro
          /\ rf.right[i] = 100 * Micro
          /\ min_range(pdfinfo, i) = NoRange
          /\ RfSmall(i)
          /\ ~RfSmallAfterWiden(i)
          /\ pars[i].min = -10 * Micro
          /\ pars[i].max = 10 * Micro
\* a seed that fails the test on the bounds at entry and would pass it on
\* the widened bounds
C22_WitnessWidenedStays ==
    /\ RfApplies
    /\ \E i \in DOMAIN pars :
          /\ RfOutside(i)
          /\ ~RfSmall(i)
          /\ RfSmallAfterWiden(i)
          /\ pars[i].min = RfAfterWidenLeft(i)
          /\ pars[i].max = RfAfterWidenRight(i)

\* C27: after the bound adjustment of fit_roofit, for every seed value (0
\* included) and every prior bound pair with lower < upper, in a family that
\* declares no hard ranges, every parameter has lower bound < upper bound and
\* lower bound <= seed <= upper bound.
C27_BoundsContainSeed ==
    RfApplies =>
        \A i \in DOMAIN pars :
            (/\ rf.left[i] < rf.right[i]
             /\ max_range(pdfinfo, i) = NoRange
             /\ min_range(pdfinfo, i) = NoRange) =>
                /\ pars[i].min < pars[i].max
                /\ pars[i].min <= RfSeed(i)
                /\ RfSeed(i) <= pars[i].max
\* the same for seeds other than 0
C27_NonzeroSeedInsideBounds ==
    RfApplies =>
        \A i \in DOMAIN pars :
            (/\ rf.left[i] < rf.right[i]
             /\ RfSeed(i) # 0
             /\ max_range(pdfinfo, i) = NoRange
             /\ min_range(pdfinfo, i) = NoRange) =>
                /\ pars[i].min < pars[i].max
                /\ pars[i].min <= RfSeed(i)
                /\ RfSeed(i) <= pars[i].max

\* C28: for a list of one or more fitted models do_fisher_test does not
\* raise and returns an index of the list; for a single model it returns 0.
C28_FisherAlwaysReturns ==
    /\ fpc # "raised"
    /\ fpc = "done" =>
          /\ winner \in 0..(Len(fpdfs) - 1)
          /\ Len(fpdfs) = 1 => winner = 0
\* for two or more models it raises in the loops that fill the table only
\* (a zero divisor), and what it returns is an index of the list
C28_FisherReturnsForTwoOrMore ==
    Len(fpdfs) >= 2 =>
        /\ fpc = "raised" => cl_vals = <<>>
        /\ fpc = "done" => winner \in 0..(Len(fpdfs) - 1)

\* C29: the index w returned by do_fisher_test is unbeaten by every more
\* complex model (confidence(w,k) above the threshold for every k > w), and
\* if w > 0 some less complex model i < w lost against it (confidence(i,w)
\* at or below the threshold).
C29_WinnerUnbeaten ==
    fpc = "done" =>
        /\ \A k \in 0..(Len(fpdfs) - 1) : k > winner => cl_vals[<<winner, k>>] > a_crit
        /\ winner > 0 => \E i \in 0..(winner - 1) : cl_vals[<<i, winner>>] <= a_crit
C29_Witness ==
    /\ fpc = "done"
    /\ Len(fpdfs) = 3
    /\ winner = 1
    /\ cl_vals[<<0, 1>>] = a_crit
    /\ cl_vals[<<1, 2>>] > a_crit
    /\ cl_vals[<<0, 2>>] > a_crit

\* the models of the last table are ordered by strictly increasing number
\* of parameters, and every record that serves as model j of a pair has a
\* positive goodness of fit and more bins than model j has parameters
FtOrdered ==
    \A i, j \in DOMAIN ftab.pdfs : i < j => ftab.pdfs[i].n_pars < ftab.pdfs[j].n_pars
FtRegular ==
    \A j \in DOMAIN ftab.pdfs :
        j >= 2 => (ftab.gofs[j].gof > 0 /\ ftab.gofs[j].n_bins > ftab.pdfs[j].n_pars)

\* C23: before any winner decision do_fisher_test computes, for every pair
\* (i,j) with i<j, F = ((gof_i - gof_j)/(k_j - k_i)) / (gof_j/(bins_j - k_j))
\* with degrees of freedom (k_j - k_i, bins_j - k_j), bins_j from the record
\* of model j; for models ordered by strictly increasing parameter count
\* with gof_j > 0 and bins_j > k_j both divisors and both degrees of freedom
\* are positive (and nothing raises).
C23_FStatisticOfEveryPair ==
    ftab # <<>> =>
        LET n == Len(ftab.pdfs)
            k(i) == ftab.pdfs[i + 1].n_pars
            gof(i) == ftab.gofs[i + 1].gof
            bins(i) == ftab.gofs[i + 1].n_bins
        IN  /\ ~ftab.raised =>
                  /\ DOMAIN ftab.entries = {p \in (0..(n - 1)) \X (0..(n - 1)) : p[1] < p[2]}
                  /\ \A p \in DOMAIN ftab.entries :
                        LET e == ftab.entries[p]
                            i == p[1]
                            j == p[2]
                        IN  /\ e.d1 = k(j) - k(i)
                            /\ e.d2 = bins(j) - k(j)
                            /\ e.f.den > 0
                            /\ e.f.num * ((k(j) - k(i)) * gof(j))
                                  = e.f.den * ((gof(i) - gof(j)) * (bins(j) - k(j)))
            /\ (FtOrdered /\ FtRegular) =>
                  /\ ~ftab.raised
                  /\ \A p \in DOMAIN ftab.entries :
                        LET e == ftab.entries[p]
                        IN  /\ e.d1 > 0
                            /\ e.d2 > 0
                            /\ k(p[2]) - k(p[1]) > 0
                            /\ gof(p[2]) * e.d2 > 0
C23_Witness ==
    /\ ftab # <<>>
    /\ Len(ftab.pdfs) = 3
    /\ FtOrdered
    /\ FtRegular
    /\ ~ftab.raised
    /\ ftab.gofs[2].n_bins # ftab.gofs[1].n_bins
    /\ ftab.entries[<<0, 2>>].d1 = 2
    /\ ftab.entries[<<0, 1>>].f.num > 0
    /\ ftab.entries[<<1, 2>>].f.num < 0

\* C24: when two processes share one Fit Cache and run the same request,
\* the get-miss / compute / write cycle of a hash is mutually exclusive: at
\* most one of them computes and writes the result for the hash, and the
\* other returns the cached entry.
C24_CycleMutuallyExclusive ==
    \A p, q \in Procs :
        (p # q /\ conc.req[p] # <<>> /\ conc.req[p] = conc.req[q]) =>
            /\ ~(conc.pc[p] \in {"fit", "write"} /\ conc.pc[q] \in {"fit", "write"})
            /\ ~(conc.minimized[p] /\ conc.minimized[q])
            /\ ~(<<p, ConcHash(conc.req[p])>> \in conc.writes
                   /\ <<q, ConcHash(conc.req[q])>> \in conc.writes)
            /\ (conc.pc[p] = "done" /\ conc.pc[q] = "done" /\ conc.minimized[p]) =>
                  (conc.hit[q] /\ conc.ret[q] = conc.ret[p])
\* what does hold: a process that looks up after the other has written
\* returns the cached entry, and an entry is never replaced by a different
\* result
C24_LateLookupHits ==
    \A p \in Procs :
        /\ conc.hit[p] => CacheHas(conc.store, ConcHash(conc.req[p]))
        /\ (conc.pc[p] = "done" /\ conc.req[p] # <<>>) =>
              conc.ret[p] = <<conc.store[ConcHash(conc.req[p])]>>

\* the call of the refit of the current fit_scipy_robust call, if made
PhaseBDone == Len(calls) >= 2 /\ calls[2].phase = "B"

\* C25: the result returned by fit_scipy_robust never has a larger objective
\* value than the Phase B result of the same call, whenever Phase B's
\* objective value is finite.
C25_ReturnedNotWorseThanPhaseB ==
    (pc = "returned" /\ ret # <<>> /\ PhaseBDone /\ IsFinite(calls[2].res.fun)) =>
        /\ IsFinite(ret[1].fun)
        /\ ret[1].fun.v <= calls[2].res.fun.v
\* what does hold: without forced brute force, a converged Phase B result is
\* the returned one
C25_ConvergedPhaseBReturned ==
    (pc = "returned" /\ ret # <<>> /\ PhaseBDone /\ calls[2].res.success /\ ~brute) =>
        ret[1] = calls[2].res

\* the robust-tagged key of an expression
RobustKeyOf(e) == make_fit_hash(e, th1, <<>>, "robust", <<>>)

\* C26 as stated: every entry of the Fit Cache is stored under the key equal
\* to the hash carried by the stored result, the entries under the
\* robust-tagged key included.
C26_KeyEqualsResultHash ==
    \A key \in DOMAIN cache : cache[key].hash = key

\* C26 amended: an entry is stored either under the hash carried by the
\* stored result (the entries single_fit_scipy writes) or under the
\* robust-tagged key of the result's expression, and in that case the hash
\* carried by the result is not the key: it is the hash of the single fit
\* that produced the result.
C26_KeyIsResultHashOrRobust ==
    \A key \in DOMAIN cache :
        LET r == cache[key]
        IN  /\ \/ key = r.hash
               \/ key = RobustKeyOf(r.expression) /\ key # r.hash
            /\ (pc = "returned" /\ key = RobustHash /\ key \in Range(wlog)) =>
                  \E k \in DOMAIN calls : calls[k].hash = r.hash /\ calls[k].res = r
C26_Witness ==
    /\ pc = "returned"
    /\ use_cache
    /\ \E key \in DOMAIN cache : cache[key].hash = key /\ cache[key].x_init # Ones(Len(cache[key].x_init))
    /\ CacheHas(cache, RobustHash)
    /\ CacheGet(cache, RobustHash).hash # RobustHash
    /\ CacheGet(cache, RobustHash) = ret[1]

\* the two calls are the same request up to rounding of the floats to 5
\* decimals
SameRequest(a, b) ==
    /\ SameStrings(a, b)
    /\ SameFloats(a, b, 5)

\* C30: the key is injective on the request up to 5-decimal rounding: two
\* requests that differ in expression, binning, bin values, initial values,
\* tolerance, method or tag feed different bytes to the hash and get
\* different keys.
C30_KeyInjective ==
    \A i, j \in DOMAIN hcalls :
        ~SameRequest(hcalls[i], hcalls[j]) => hcalls[i].key # hcalls[j].key
\* what does hold: requests with histograms of the same number of bins, the
\* same initial values and the same tolerance that differ in expression,
\* method, tag or a float of the histogram get different keys
C30_KeyInjectiveSameShape ==
    \A i, j \in DOMAIN hcalls :
        LET a == hcalls[i]
            b == hcalls[j]
        IN  (/\ ~SameRequest(a, b)
             /\ Len(a.th1.binning) = Len(b.th1.binning)
             /\ a.init_vals = b.init_vals
             /\ RoundTo(a.kw.tol, 5) = RoundTo(b.kw.tol, 5)) => a.key # b.key

====
